---- MODULE Spec2Model ----
(***************************************************************************)
(* Model of the SSF toolkit (PorousLab/ssf-toolkit): the dashboard, its    *)
(* tool components (React state set by sliders, toggles and presets) and   *)
(* the values each component derives from its state with useMemo.          *)
(*                                                                         *)
(* Numbers.  A JavaScript number is a record [t, v]:                       *)
(*   t = "num"   a finite number, v its value in a fixed-point unit that   *)
(*               is stated where the quantity is introduced;               *)
(*   t = "nan"   NaN;                                                      *)
(*   t = "inf"   +Infinity (v = 1) or -Infinity (v = -1);                  *)
(*   t = "undef" the value of a property the object does not have;         *)
(*   t = "null"  null;                                                     *)
(*   t = "bool"  a boolean, v = 1 for true and 0 for false.                *)
(* Negative zero is not distinguished from zero.  Division of finite       *)
(* numbers rounds towards minus infinity at the unit of the result.        *)
(***************************************************************************)
EXTENDS Integers, Sequences, FiniteSets, TLC

VARIABLES activeTool, eps, sdp, lce, ssf, te, cft, edits, engine

vars == <<activeTool, eps, sdp, lce, ssf, te, cft, edits, engine>>

(***************************************************************************)
(* Bounds of the model.                                                    *)
(***************************************************************************)
\* every slider is sampled at SliderPositions + 1 grid positions, from its
\* minimum to its maximum
SliderPositions == 2

\* at most MaxEdits slider or toggle edits since the component was mounted
\* or a preset was applied
MaxEdits == 2

(***************************************************************************)
(* JavaScript values and arithmetic.                                       *)
(***************************************************************************)
Num(n) == [t |-> "num", v |-> n]

NaN == [t |-> "nan", v |-> 0]

Infinity(s) == [t |-> "inf", v |-> s]

Undefined == [t |-> "undef", v |-> 0]

Null == [t |-> "null", v |-> 0]

Bool(b) == [t |-> "bool", v |-> IF b THEN 1 ELSE 0]

\* ToNumber: undefined becomes NaN, null 0, true 1, false 0
ToNumber(x) ==
  CASE x.t = "undef" -> NaN
    [] x.t = "null" -> Num(0)
    [] x.t = "bool" -> Num(x.v)
    [] OTHER -> x

\* ToBoolean: undefined, null, NaN, 0 and false are falsy
ToBoolean(x) ==
  CASE x.t = "undef" -> FALSE
    [] x.t = "null" -> FALSE
    [] x.t = "nan" -> FALSE
    [] x.t = "inf" -> TRUE
    [] OTHER -> x.v # 0

IsNaN(x) == x.t = "nan"

IsFinite(x) == x.t = "num"

Sign(n) == IF n > 0 THEN 1 ELSE IF n < 0 THEN -1 ELSE 0

Abs(n) == IF n < 0 THEN -n ELSE n

\* a + b, both in the same unit
JSAdd(a0, b0) ==
  LET a == ToNumber(a0)
      b == ToNumber(b0)
  IN  CASE a.t = "nan" \/ b.t = "nan" -> NaN
        [] a.t = "inf" /\ b.t = "inf" -> IF a.v = b.v THEN a ELSE NaN
        [] a.t = "inf" -> a
        [] b.t = "inf" -> b
        [] OTHER -> Num(a.v + b.v)

\* -a
JSNeg(a0) ==
  LET a == ToNumber(a0)
  IN  CASE a.t = "nan" -> NaN
        [] OTHER -> [t |-> a.t, v |-> -a.v]

\* a - b, both in the same unit
JSSub(a, b) == JSAdd(a, JSNeg(b))

\* a * b; the unit of the product is the product of the units
JSMul(a0, b0) ==
  LET a == ToNumber(a0)
      b == ToNumber(b0)
  IN  CASE a.t = "nan" \/ b.t = "nan" -> NaN
        [] a.t = "inf" \/ b.t = "inf" ->
             IF Sign(a.v) * Sign(b.v) = 0 THEN NaN
             ELSE Infinity(Sign(a.v) * Sign(b.v))
        [] OTHER -> Num(a.v * b.v)

\* a / b, with the quotient of the two units expressed in 1/k: the finite
\* result is (a.v * k) \div b.v
JSDiv(a0, b0, k) ==
  LET a == ToNumber(a0)
      b == ToNumber(b0)
  IN  CASE a.t = "nan" \/ b.t = "nan" -> NaN
        [] a.t = "inf" /\ b.t = "inf" -> NaN
        [] a.t = "inf" -> Infinity(IF b.v < 0 THEN -a.v ELSE a.v)
        [] b.t = "inf" -> Num(0)
        [] b.v = 0 -> IF a.v = 0 THEN NaN ELSE Infinity(Sign(a.v))
        [] OTHER -> Num((a.v * k) \div b.v)

\* a < b, a >= b ... : every comparison with NaN is false
JSLt(a0, b0) ==
  LET a == ToNumber(a0)
      b == ToNumber(b0)
  IN  CASE a.t = "nan" \/ b.t = "nan" -> FALSE
        [] a.t = "inf" /\ b.t = "inf" -> a.v < b.v
        [] a.t = "inf" -> a.v < 0
        [] b.t = "inf" -> b.v > 0
        [] OTHER -> a.v < b.v

JSGt(a, b) == JSLt(b, a)

JSGe(a, b) == JSLt(b, a) \/ (~IsNaN(ToNumber(a)) /\ ~IsNaN(ToNumber(b)) /\ ~JSLt(a, b))

\* Math.max(a, b): NaN when either argument is NaN
MathMax(a0, b0) ==
  LET a == ToNumber(a0)
      b == ToNumber(b0)
  IN  CASE a.t = "nan" \/ b.t = "nan" -> NaN
        [] JSLt(a, b) -> b
        [] OTHER -> a

\* Math.min(a, b)
MathMin(a0, b0) ==
  LET a == ToNumber(a0)
      b == ToNumber(b0)
  IN  CASE a.t = "nan" \/ b.t = "nan" -> NaN
        [] JSLt(b, a) -> b
        [] OTHER -> a

\* Math.abs(a)
MathAbs(a0) ==
  LET a == ToNumber(a0)
  IN  CASE a.t = "nan" -> NaN
        [] OTHER -> [t |-> a.t, v |-> Abs(a.v)]

\* a || b
JSOr(a, b) == IF ToBoolean(a) THEN a ELSE b

\* cond ? 0 : 1
FlagInverted(cond) == IF ToBoolean(cond) THEN Num(0) ELSE Num(1)

\* cond ? 1 : 0
Flag(cond) == IF ToBoolean(cond) THEN Num(1) ELSE Num(0)

(***************************************************************************)
(* Sliders.  A range input offers min, min + step, ... up to max; the      *)
(* model samples SliderPositions + 1 of these positions.                   *)
(***************************************************************************)
Sample(min, max, step) ==
  { min + step * ((((max - min) \div step) * k) \div SliderPositions) :
      k \in 0..SliderPositions }

RECURSIVE Pow10(_)
Pow10(e) == IF e = 0 THEN 1 ELSE 10 * Pow10(e - 1)

\* a logScale slider runs over log10(min)..log10(max) and sets 10^val; the
\* model samples the positions with an integer exponent, the value being
\* expressed in 10^unitExp
LogSample(minExp, maxExp, unitExp) ==
  { Pow10((minExp + (((maxExp - minExp) * k) \div SliderPositions)) - unitExp) :
      k \in 0..SliderPositions }

NoPreset == "null"

(***************************************************************************)
(* EPSRemovalPredictor.  Units: protein and carbohydrate ug/g, biomass     *)
(* 1e5 copies/g, sdAge days, grainSize 0.01 mm; every removal value        *)
(* (lambda, log10 removal) 1e-6.                                           *)
(***************************************************************************)
EpsScales == <<"mini_ch4", "mini_ch5", "midi", "combined", "pilot">>

\* Object.keys(models[scale].models), in insertion order
EpsModelKeys(scale) ==
  CASE scale = "mini_ch4" -> <<"A", "B", "C">>
    [] scale = "mini_ch5" -> <<"A">>
    [] scale = "midi" -> <<"A", "B">>
    [] scale = "combined" -> <<"A", "B">>
    [] scale = "pilot" -> <<"A", "B", "C">>

Range(seq) == { seq[i] : i \in DOMAIN seq }

\* the catalog: every (scale, model) pair of models
EpsEntries ==
  { e \in Range(EpsScales) \X {"A", "B", "C"} : e[2] \in Range(EpsModelKeys(e[1])) }

\* params.protein / params.carbohydrate with no floor, in 1e-4
ProteinCarbRatioNoFloor(protein, carbohydrate) ==
  JSDiv(protein, JSMul(Num(10), carbohydrate), 100000)

\* params.protein / Math.max(params.carbohydrate, 0.1), in 1e-4: the
\* divisor is taken in 0.1 ug/g so that the floor 0.1 is the integer 1
ProteinCarbRatio(protein, carbohydrate) ==
  JSDiv(protein, MathMax(JSMul(Num(10), carbohydrate), Num(1)), 100000)

\* models[scale].models[model].calculate(params)
EpsCalculate(scale, model, params) ==
  CASE scale = "mini_ch4" /\ model = "A" ->
         JSAdd(Num(-170000),
               JSMul(Num(214), ProteinCarbRatio(params.protein, params.carbohydrate)))
    [] scale = "mini_ch4" /\ model = "B" ->
         JSAdd(JSAdd(Num(860000), JSMul(Num(-14400), params.grainSize)),
               JSMul(Num(640000), Flag(params.inoculated)))
    [] scale = "mini_ch4" /\ model = "C" ->
         JSAdd(JSAdd(Num(-220000),
                     JSMul(Num(190), ProteinCarbRatio(params.protein, params.carbohydrate))),
               JSMul(Num(340000), Flag(params.inoculated)))
    [] scale = "mini_ch5" /\ model = "A" ->
         JSAdd(Num(-210000), JSMul(Num(5710), params.protein))
    [] scale = "midi" /\ model = "A" ->
         JSAdd(Num(128000), JSMul(Num(185), params.biomass))
    [] scale = "midi" /\ model = "B" ->
         JSAdd(Num(-10600), JSMul(Num(1360), params.sdAge))
    [] scale = "combined" /\ model = "A" ->
         JSAdd(Num(88000), JSMul(Num(210), params.biomass))
    [] scale = "combined" /\ model = "B" ->
         JSAdd(Num(-17000), JSMul(Num(1370), params.sdAge))
    [] scale = "pilot" /\ model = "A" ->
         JSAdd(JSAdd(Num(-2111000), JSMul(Num(4160), params.carbohydrate)),
               JSMul(Num(13300), params.protein))
    [] scale = "pilot" /\ model = "B" ->
         JSAdd(Num(-374800), JSMul(Num(2900), params.sdAge))
    [] scale = "pilot" /\ model = "C" ->
         JSAdd(JSAdd(JSAdd(Num(-2255600), JSMul(Num(4780), params.carbohydrate)),
                     JSMul(Num(12400), params.protein)),
               JSMul(Num(-193500), Flag(params.inoculated)))

\* the predictor variables named by the entry's own equation string
EpsEquationVariables(scale, model) ==
  CASE scale = "mini_ch4" /\ model = "A" -> {"protein", "carbohydrate"}
    [] scale = "mini_ch4" /\ model = "B" -> {"grainSize", "inoculated"}
    [] scale = "mini_ch4" /\ model = "C" -> {"protein", "carbohydrate", "inoculated"}
    [] scale = "mini_ch5" /\ model = "A" -> {"protein"}
    [] scale = "midi" /\ model = "A" -> {"biomass"}
    [] scale = "midi" /\ model = "B" -> {"sdAge"}
    [] scale = "combined" /\ model = "A" -> {"carbohydrate", "protein"}
    [] scale = "combined" /\ model = "B" -> {"sdAge"}
    [] scale = "pilot" /\ model = "A" -> {"carbohydrate", "protein"}
    [] scale = "pilot" /\ model = "B" -> {"sdAge"}
    [] scale = "pilot" /\ model = "C" -> {"carbohydrate", "protein", "inoculated"}

\* the fields of params that calculate reads
EpsCalculateReads(scale, model) ==
  CASE scale = "mini_ch4" /\ model = "A" -> {"protein", "carbohydrate"}
    [] scale = "mini_ch4" /\ model = "B" -> {"grainSize", "inoculated"}
    [] scale = "mini_ch4" /\ model = "C" -> {"protein", "carbohydrate", "inoculated"}
    [] scale = "mini_ch5" /\ model = "A" -> {"protein"}
    [] scale = "midi" /\ model = "A" -> {"biomass"}
    [] scale = "midi" /\ model = "B" -> {"sdAge"}
    [] scale = "combined" /\ model = "A" -> {"biomass"}
    [] scale = "combined" /\ model = "B" -> {"sdAge"}
    [] scale = "pilot" /\ model = "A" -> {"carbohydrate", "protein"}
    [] scale = "pilot" /\ model = "B" -> {"sdAge"}
    [] scale = "pilot" /\ model = "C" -> {"carbohydrate", "protein", "inoculated"}

\* the entry's equation string evaluated with the entry's coefficients
\* object (a1 of combined A is 2.10e-9 per ug/g of carbohydrate: 21e-4 in
\* 1e-6 per ug/g)
EpsEquation(scale, model, params) ==
  CASE scale = "mini_ch4" /\ model = "A" ->
         JSAdd(Num(-170000),
               JSMul(Num(214), ProteinCarbRatio(params.protein, params.carbohydrate)))
    [] scale = "mini_ch4" /\ model = "B" ->
         JSAdd(JSAdd(Num(860000), JSMul(Num(-14400), params.grainSize)),
               JSMul(Num(640000), Flag(params.inoculated)))
    [] scale = "mini_ch4" /\ model = "C" ->
         JSAdd(JSAdd(Num(-220000),
                     JSMul(Num(190), ProteinCarbRatio(params.protein, params.carbohydrate))),
               JSMul(Num(340000), Flag(params.inoculated)))
    [] scale = "mini_ch5" /\ model = "A" ->
         JSAdd(Num(-210000), JSMul(Num(5710), params.protein))
    [] scale = "midi" /\ model = "A" ->
         JSAdd(Num(128000), JSMul(Num(185), params.biomass))
    [] scale = "midi" /\ model = "B" ->
         JSAdd(Num(-10600), JSMul(Num(1360), params.sdAge))
    [] scale = "combined" /\ model = "A" ->
         JSAdd(JSAdd(Num(88000),
                     JSDiv(JSMul(Num(21), params.carbohydrate), Num(10000), 1)),
               JSMul(Num(0), params.protein))
    [] scale = "combined" /\ model = "B" ->
         JSAdd(Num(-17000), JSMul(Num(1370), params.sdAge))
    [] scale = "pilot" /\ model = "A" ->
         JSAdd(JSAdd(Num(-2111000), JSMul(Num(4160), params.carbohydrate)),
               JSMul(Num(13300), params.protein))
    [] scale = "pilot" /\ model = "B" ->
         JSAdd(Num(-374800), JSMul(Num(2900), params.sdAge))
    [] scale = "pilot" /\ model = "C" ->
         JSAdd(JSAdd(JSAdd(Num(-2255600), JSMul(Num(4780), params.carbohydrate)),
                     JSMul(Num(12400), params.protein)),
               JSMul(Num(-193500), Flag(params.inoculated)))

\* the equation of docs/regression-equations.md for the chapter and scale
\* of the entry, with the coefficients of its table
DocEquation(scale, model, params) ==
  CASE scale = "mini_ch4" /\ model = "A" ->
         JSAdd(Num(-170000),
               JSMul(Num(214), ProteinCarbRatio(params.protein, params.carbohydrate)))
    [] scale = "mini_ch4" /\ model = "B" ->
         JSAdd(JSAdd(Num(860000), JSMul(Num(-14400), params.grainSize)),
               JSMul(Num(640000), Flag(params.inoculated)))
    [] scale = "mini_ch4" /\ model = "C" ->
         JSAdd(JSAdd(Num(-220000),
                     JSMul(Num(190), ProteinCarbRatio(params.protein, params.carbohydrate))),
               JSMul(Num(340000), Flag(params.inoculated)))
    [] scale = "mini_ch5" /\ model = "A" ->
         JSAdd(Num(-210000), JSMul(Num(5710), params.protein))
    [] scale = "midi" /\ model = "A" ->
         JSAdd(Num(128000), JSMul(Num(185), params.biomass))
    [] scale = "midi" /\ model = "B" ->
         JSAdd(Num(-10600), JSMul(Num(1360), params.sdAge))
    [] scale = "combined" /\ model = "A" ->
         JSAdd(Num(88400), JSMul(Num(210), params.biomass))
    [] scale = "combined" /\ model = "B" ->
         JSAdd(Num(-17000), JSMul(Num(1370), params.sdAge))
    [] scale = "pilot" /\ model = "A" ->
         JSAdd(JSAdd(Num(-2111000), JSMul(Num(4160), params.carbohydrate)),
               JSMul(Num(13300), params.protein))
    [] scale = "pilot" /\ model = "B" ->
         JSAdd(Num(-374800), JSMul(Num(2900), params.sdAge))
    [] scale = "pilot" /\ model = "C" ->
         JSAdd(JSAdd(JSAdd(Num(-2255600), JSMul(Num(4780), params.carbohydrate)),
                     JSMul(Num(12400), params.protein)),
               JSMul(Num(-193500), Flag(params.inoculated)))

\* the predictor variables of that equation
DocEquationVariables(scale, model) ==
  CASE scale = "mini_ch4" /\ model = "A" -> {"protein", "carbohydrate"}
    [] scale = "mini_ch4" /\ model = "B" -> {"grainSize", "inoculated"}
    [] scale = "mini_ch4" /\ model = "C" -> {"protein", "carbohydrate", "inoculated"}
    [] scale = "mini_ch5" /\ model = "A" -> {"protein"}
    [] scale = "midi" /\ model = "A" -> {"biomass"}
    [] scale = "midi" /\ model = "B" -> {"sdAge"}
    [] scale = "combined" /\ model = "A" -> {"biomass"}
    [] scale = "combined" /\ model = "B" -> {"sdAge"}
    [] scale = "pilot" /\ model = "A" -> {"carbohydrate", "protein"}
    [] scale = "pilot" /\ model = "B" -> {"sdAge"}
    [] scale = "pilot" /\ model = "C" -> {"carbohydrate", "protein", "inoculated"}

EpsPresetKeys == {"youngFilter", "matureFilter", "fineSand", "coarseSand", "highEPS"}

\* presets[key].params
EpsPresets(key) ==
  CASE key = "youngFilter" ->
         [protein |-> 50, carbohydrate |-> 80, biomass |-> 500, sdAge |-> 30,
          grainSize |-> 30, inoculated |-> FALSE]
    [] key = "matureFilter" ->
         [protein |-> 200, carbohydrate |-> 120, biomass |-> 2000, sdAge |-> 180,
          grainSize |-> 30, inoculated |-> TRUE]
    [] key = "fineSand" ->
         [protein |-> 250, carbohydrate |-> 100, biomass |-> 3000, sdAge |-> 90,
          grainSize |-> 15, inoculated |-> TRUE]
    [] key = "coarseSand" ->
         [protein |-> 100, carbohydrate |-> 150, biomass |-> 1000, sdAge |-> 90,
          grainSize |-> 50, inoculated |-> FALSE]
    [] key = "highEPS" ->
         [protein |-> 350, carbohydrate |-> 180, biomass |-> 5000, sdAge |-> 365,
          grainSize |-> 30, inoculated |-> TRUE]

\* the useState initial values
EpsInitial ==
  [protein |-> 150, carbohydrate |-> 100, biomass |-> 1000, sdAge |-> 90,
   grainSize |-> 30, inoculated |-> TRUE, selectedScale |-> "pilot",
   selectedModel |-> "A", activePreset |-> NoPreset]

\* the slider of each numeric field: the values it can set
EpsSliders ==
  [protein |-> Sample(10, 500, 10), carbohydrate |-> Sample(10, 300, 10),
   biomass |-> LogSample(6, 10, 5), sdAge |-> Sample(0, 365, 7),
   grainSize |-> Sample(10, 80, 5)]

\* currentParams
EpsCurrentParams(st) ==
  [protein |-> Num(st.protein), carbohydrate |-> Num(st.carbohydrate),
   biomass |-> Num(st.biomass), sdAge |-> Num(st.sdAge),
   grainSize |-> Num(st.grainSize), inoculated |-> Bool(st.inoculated)]

\* the entry's calculate with no floor at zero
EpsPredictionValueRaw(scale, model, params) ==
  EpsCalculate(scale, model, params)

\* predictions[scale][model].value for the parameter record params
EpsPredictionValue(scale, model, params) ==
  MathMax(Num(0), EpsCalculate(scale, model, params))

\* predictions that count the edits made since the last preset in
EpsPredictionsCountingEdits(params) ==
  [e \in EpsEntries |->
     [value |-> JSAdd(EpsPredictionValue(e[1], e[2], params), Num(edits)),
      scale |-> e[1], model |-> e[2]]]

\* predictions
EpsPredictions(params) ==
  [e \in EpsEntries |->
     [value |-> EpsPredictionValue(e[1], e[2], params), scale |-> e[1], model |-> e[2]]]

\* currentPrediction: null for a scale that is no key of models, the first
\* model's entry for a model that is no key of the scale, else the entry
\* of (selectedScale, selectedModel)
currentPrediction(st) ==
  IF st.selectedScale \notin Range(EpsScales) THEN Null
  ELSE IF st.selectedModel \notin Range(EpsModelKeys(st.selectedScale))
       THEN EpsPredictions(EpsCurrentParams(st))[<<st.selectedScale,
                                                   EpsModelKeys(st.selectedScale)[1]>>]
       ELSE EpsPredictions(EpsCurrentParams(st))[<<st.selectedScale, st.selectedModel>>]

\* ratioSensitivity: one sample for each ratio = k / 4, k = 2 .. 16, with the
\* record testParams both models are evaluated on; testProtein =
\* ratio * carbohydrate is kept to the whole ug/g below
ratioSensitivity(currentParams) ==
  [k \in 2 .. 16 |->
     LET testProtein == JSDiv(JSMul(Num(k), currentParams.carbohydrate), Num(4), 1)
         testParams == [currentParams EXCEPT !.protein = testProtein]
     IN  [ratio |-> k, testParams |-> testParams,
          mini_ch4 |-> MathMax(Num(0), EpsCalculate("mini_ch4", "A", testParams)),
          pilot |-> MathMax(Num(0), EpsCalculate("pilot", "A", testParams)),
          current |-> JSLt(MathAbs(JSSub(Num(2500 * k),
                                         ProteinCarbRatio(currentParams.protein,
                                                          currentParams.carbohydrate))),
                           Num(1000))]]

\* ageSensitivity: one sample for each age = 30 * i, i = 0 .. 12
ageSensitivity(currentParams) ==
  [i \in 0 .. 12 |->
     LET age == 30 * i
         testParams == [currentParams EXCEPT !.sdAge = Num(age)]
     IN  [age |-> age, testParams |-> testParams,
          midi |-> MathMax(Num(0), EpsCalculate("midi", "B", testParams)),
          pilot |-> MathMax(Num(0), EpsCalculate("pilot", "B", testParams)),
          current |-> JSLt(MathAbs(JSSub(Num(age), currentParams.sdAge)), Num(15))]]

(***************************************************************************)
(* ScaleDependentPredictor.  Units as in EPSRemovalPredictor.              *)
(***************************************************************************)
SdpScales == <<"mini", "midi", "combined">>

\* Object.keys(scaleModels[scale].models)
SdpModelKeys(scale) ==
  CASE scale = "mini" -> <<"A">>
    [] scale = "midi" -> <<"A", "B">>
    [] scale = "combined" -> <<"A", "B">>

SdpEntries ==
  { e \in Range(SdpScales) \X {"A", "B"} : e[2] \in Range(SdpModelKeys(e[1])) }

\* scaleModels[scale].models[model].calculate(params)
SdpCalculate(scale, model, params) ==
  CASE scale = "mini" /\ model = "A" ->
         JSAdd(Num(-210000), JSMul(Num(5710), params.protein))
    [] scale = "midi" /\ model = "A" ->
         JSAdd(Num(128000), JSMul(Num(185), params.biomass))
    [] scale = "midi" /\ model = "B" ->
         JSAdd(Num(-10600), JSMul(Num(1360), params.sdAge))
    [] scale = "combined" /\ model = "A" ->
         JSAdd(Num(88400), JSMul(Num(210), params.biomass))
    [] scale = "combined" /\ model = "B" ->
         JSAdd(Num(-17000), JSMul(Num(1370), params.sdAge))

\* the fields of params that calculate reads
SdpCalculateReads(scale, model) ==
  CASE scale = "mini" /\ model = "A" -> {"protein"}
    [] scale = "midi" /\ model = "A" -> {"biomass"}
    [] scale = "midi" /\ model = "B" -> {"sdAge"}
    [] scale = "combined" /\ model = "A" -> {"biomass"}
    [] scale = "combined" /\ model = "B" -> {"sdAge"}

\* the predictor variables named by the entry's own equation string
SdpEquationVariables(scale, model) ==
  CASE scale = "mini" /\ model = "A" -> {"protein"}
    [] scale = "midi" /\ model = "A" -> {"biomass"}
    [] scale = "midi" /\ model = "B" -> {"sdAge"}
    [] scale = "combined" /\ model = "A" -> {"biomass"}
    [] scale = "combined" /\ model = "B" -> {"sdAge"}

\* the entry's equation string evaluated with the entry's coefficients object
SdpEquation(scale, model, params) ==
  CASE scale = "mini" /\ model = "A" ->
         JSAdd(Num(-210000), JSMul(Num(5710), params.protein))
    [] scale = "midi" /\ model = "A" ->
         JSAdd(Num(128000), JSMul(Num(185), params.biomass))
    [] scale = "midi" /\ model = "B" ->
         JSAdd(Num(-10600), JSMul(Num(1360), params.sdAge))
    [] scale = "combined" /\ model = "A" ->
         JSAdd(Num(88400), JSMul(Num(210), params.biomass))
    [] scale = "combined" /\ model = "B" ->
         JSAdd(Num(-17000), JSMul(Num(1370), params.sdAge))

\* the chapter and scale of docs/regression-equations.md that the scale is
SdpDocScale(scale) == IF scale = "mini" THEN "mini_ch5" ELSE scale

SdpPresetKeys == {"youngMini", "matureMini", "youngMidi", "matureMidi", "slowRipening"}

\* presets[key].params
SdpPresets(key) ==
  CASE key = "youngMini" ->
         [protein |-> 40, carbohydrate |-> 50, biomass |-> 100, sdAge |-> 30,
          sandType |-> "fine", inoculated |-> FALSE]
    [] key = "matureMini" ->
         [protein |-> 150, carbohydrate |-> 90, biomass |-> 1000, sdAge |-> 120,
          sandType |-> "fine", inoculated |-> TRUE]
    [] key = "youngMidi" ->
         [protein |-> 50, carbohydrate |-> 60, biomass |-> 500, sdAge |-> 100,
          sandType |-> "mixed", inoculated |-> TRUE]
    [] key = "matureMidi" ->
         [protein |-> 80, carbohydrate |-> 100, biomass |-> 3000, sdAge |-> 365,
          sandType |-> "fine", inoculated |-> TRUE]
    [] key = "slowRipening" ->
         [protein |-> 45, carbohydrate |-> 55, biomass |-> 200, sdAge |-> 200,
          sandType |-> "coarse", inoculated |-> FALSE]

\* the useState initial values
SdpInitial ==
  [protein |-> 100, carbohydrate |-> 80, biomass |-> 500, sdAge |-> 100,
   sandType |-> "fine", inoculated |-> TRUE, activePreset |-> NoPreset]

SdpSliders ==
  [protein |-> Sample(10, 300, 5), carbohydrate |-> Sample(10, 200, 5),
   biomass |-> LogSample(6, 10, 5), sdAge |-> Sample(1, 400, 7)]

SdpSandTypes == {"fine", "coarse", "mixed"}

\* currentParams; sandType is carried but read by no model
SdpCurrentParams(st) ==
  [protein |-> Num(st.protein), carbohydrate |-> Num(st.carbohydrate),
   biomass |-> Num(st.biomass), sdAge |-> Num(st.sdAge),
   inoculated |-> Bool(st.inoculated)]

\* predictions[scale][model].value
SdpPredictionValue(scale, model, params) ==
  MathMax(Num(0), SdpCalculate(scale, model, params))

\* predictions
SdpPredictions(params) ==
  [e \in SdpEntries |->
     [value |-> SdpPredictionValue(e[1], e[2], params), scale |-> e[1], model |-> e[2]]]

\* bestPredictions[scale], from predictions
SdpBestPredictions(preds, scale) ==
  CASE scale = "mini" -> JSOr(preds[<<"mini", "A">>].value, Num(0))
    [] scale = "midi" ->
         MathMax(JSOr(preds[<<"midi", "A">>].value, Num(0)),
                 JSOr(preds[<<"midi", "B">>].value, Num(0)))
    [] scale = "combined" ->
         MathMax(JSOr(preds[<<"combined", "A">>].value, Num(0)),
                 JSOr(preds[<<"combined", "B">>].value, Num(0)))

\* ageRemovalData: one sample for each age = 20 * i, i = 0 .. 20, with the
\* records the calculate functions are given: testParams for midi B and
\* combined B, and for mini A testParams with protein replaced by
\* Math.min(30 + 0.8 * age, 200)
ageRemovalData(currentParams) ==
  [i \in 0 .. 20 |->
     LET age == 20 * i
         testParams == [currentParams EXCEPT !.sdAge = Num(age)]
         estimatedProtein == Num(30 + (16 * i))
         miniParams == [testParams EXCEPT !.protein = MathMin(estimatedProtein, Num(200))]
     IN  [age |-> age, testParams |-> testParams, miniParams |-> miniParams,
          mini |-> MathMax(Num(0), SdpCalculate("mini", "A", miniParams)),
          midi |-> MathMax(Num(0), SdpCalculate("midi", "B", testParams)),
          combined |-> MathMax(Num(0), SdpCalculate("combined", "B", testParams)),
          current |-> JSLt(MathAbs(JSSub(Num(age), currentParams.sdAge)), Num(10))]]

\* the best model of each scale, docs/regression-equations.md (the starred
\* model of each chapter and the summary table)
DocBestModel(scale) ==
  CASE scale = "mini" -> "A"
    [] scale = "midi" -> "B"
    [] scale = "combined" -> "B"

(***************************************************************************)
(* LayerContributionExplorer.  Units: protein and carbohydrate ug/g,       *)
(* biomass 1e5 copies/g, sdAge days; removal values 1e-6.                  *)
(***************************************************************************)
LceModelKeys == <<"A", "B", "C">>

\* models[model].calculate(params)
LceCalculate(model, params) ==
  CASE model = "A" ->
         JSAdd(JSAdd(Num(-2111000), JSMul(Num(4160), params.carbohydrate)),
               JSMul(Num(13300), params.protein))
    [] model = "B" ->
         JSAdd(Num(-374800), JSMul(Num(2900), params.sdAge))
    [] model = "C" ->
         JSAdd(JSAdd(JSAdd(Num(-2255600), JSMul(Num(4780), params.carbohydrate)),
                     JSMul(Num(12400), params.protein)),
               JSMul(Num(-193500), Flag(params.inoculated)))

\* the fields of params that calculate reads
LceCalculateReads(model) ==
  CASE model = "A" -> {"carbohydrate", "protein"}
    [] model = "B" -> {"sdAge"}
    [] model = "C" -> {"carbohydrate", "protein", "inoculated"}

LcePresetKeys == {"earlyRipening", "matureFilter", "fullyMature", "inoculatedEarly", "lowEPS"}

\* presets[key].params
LcePresets(key) ==
  CASE key = "earlyRipening" ->
         [protein |-> 80, carbohydrate |-> 200, biomass |-> 500, sdAge |-> 180,
          inoculated |-> FALSE]
    [] key = "matureFilter" ->
         [protein |-> 150, carbohydrate |-> 300, biomass |-> 1000, sdAge |-> 365,
          inoculated |-> TRUE]
    [] key = "fullyMature" ->
         [protein |-> 200, carbohydrate |-> 400, biomass |-> 1500, sdAge |-> 730,
          inoculated |-> TRUE]
    [] key = "inoculatedEarly" ->
         [protein |-> 120, carbohydrate |-> 280, biomass |-> 800, sdAge |-> 180,
          inoculated |-> TRUE]
    [] key = "lowEPS" ->
         [protein |-> 50, carbohydrate |-> 150, biomass |-> 300, sdAge |-> 365,
          inoculated |-> FALSE]

\* the useState initial values
LceInitial ==
  [protein |-> 180, carbohydrate |-> 350, biomass |-> 1000, sdAge |-> 365,
   inoculated |-> TRUE, selectedModel |-> "C", activePreset |-> NoPreset]

LceSliders ==
  [protein |-> Sample(30, 350, 10), carbohydrate |-> Sample(100, 500, 20),
   biomass |-> LogSample(7, 8, 5), sdAge |-> Sample(30, 730, 30)]

\* currentParams
LceCurrentParams(st) ==
  [protein |-> Num(st.protein), carbohydrate |-> Num(st.carbohydrate),
   biomass |-> Num(st.biomass), sdAge |-> Num(st.sdAge),
   inoculated |-> Bool(st.inoculated)]

\* predictions[model].value
LcePredictionValue(model, params) ==
  MathMax(Num(0), LceCalculate(model, params))

\* predictions
LcePredictions(params) ==
  [m \in Range(LceModelKeys) |-> [value |-> LcePredictionValue(m, params), model |-> m]]

\* totalRemoval = currentPrediction?.value || 0
LceTotalRemoval(prediction) == JSOr(prediction.value, Num(0))

(***************************************************************************)
(* Library functions on fixed-point numbers.                               *)
(***************************************************************************)
\* x.toFixed(d): x rounded half away from zero to a multiple of unit (the
\* unit of x holds unit^-1 of the last printed digit); "NaN" and
\* "Infinity" print as themselves
ToFixed(x0, unit) ==
  LET x == ToNumber(x0)
  IN  IF x.t = "num"
      THEN Num(Sign(x.v) * ((Abs(x.v) + (unit \div 2)) \div unit))
      ELSE x

RECURSIVE Halve(_, _)
Halve(n, times) == IF times = 0 \/ n = 0 THEN n ELSE Halve(n \div 2, times - 1)

\* Math.exp(x) for x <= 0 given in 1e-6, the result in 1e-6: 2^-n for the
\* whole number n of ln 2 (693147e-6) in -x, times the chord of 2^-r
\* between r = 0 and r = 1 (at most 6% above the value); NaN for NaN,
\* 0 for -Infinity
MathExpNeg(x0) ==
  LET x == ToNumber(x0)
  IN  CASE x.t = "nan" -> NaN
        [] x.t = "inf" -> IF x.v < 0 THEN Num(0) ELSE x
        [] OTHER ->
             LET y == -x.v
                 n == y \div 693147
                 r == (y % 693147) \div 1000
             IN  Num(Halve(1000000 - ((500000 * r) \div 693), n))

\* Math.LN10 in 1e-3
MathLN10 == Num(2303)

(***************************************************************************)
(* LayerContributionExplorer, the layer split.  Fractions are in 1e-6;     *)
(* removal values enter in 1e-6 and products of a removal and a fraction   *)
(* are taken in 1e-3 (both factors cut to 1e-3 first).                     *)
(***************************************************************************)
\* x cut from 1e-6 to 1e-3
Milli(x) == JSDiv(x, Num(1000), 1)

\* Math.min(0.95, 0.25 + 0.70 * (1 - Math.exp(e))), e = -0.15 * months
\* given in 1e-6
LceUpperFrac(e) ==
  MathMin(Num(950000),
          JSAdd(Num(250000),
                JSDiv(JSMul(Num(7), JSSub(Num(1000000), MathExpNeg(e))), Num(10), 1)))

\* upperFraction + inocBonus with no ceiling
adjustedUpperFractionNoCeiling(upperFraction, inoculated) ==
  JSAdd(upperFraction, IF ToBoolean(inoculated) THEN Num(100000) ELSE Num(0))

\* adjustedUpperFraction = Math.min(0.98, upperFraction + inocBonus)
adjustedUpperFraction(upperFraction, inoculated) ==
  MathMin(Num(980000),
          JSAdd(upperFraction, IF ToBoolean(inoculated) THEN Num(100000) ELSE Num(0)))

\* totalRemoval * (1 - adjustedUpperFraction) / adjustedUpperFraction * 0.3,
\* in 1e-3
LceDeeperRemoval(totalRemoval, adjusted) ==
  JSDiv(JSMul(JSMul(Milli(totalRemoval), Milli(JSSub(Num(1000000), adjusted))), Num(3)),
        JSMul(Milli(adjusted), Num(10)), 1)

\* layerContributions for sdAge in days, the inoculated flag and the value
\* of currentPrediction: ageMonths = sdAge / 30, so -0.15 * ageMonths is
\* -5000e-6 a day
layerContributions(sdAge, inoculated, totalRemoval) ==
  LET upperFraction == LceUpperFrac(JSMul(Num(-5000), sdAge))
      adjusted == adjustedUpperFraction(upperFraction, inoculated)
      deeper == LceDeeperRemoval(totalRemoval, adjusted)
  IN  [upperFraction |-> adjusted,
       deeperFraction |-> JSSub(Num(1000000), adjusted),
       upperRemoval |-> Milli(totalRemoval),
       deeperRemoval |-> deeper,
       totalRemoval |-> JSAdd(Milli(totalRemoval), deeper)]

\* layerContributions of the component's state
LceLayerContributions(st) ==
  layerContributions(Num(st.sdAge), Bool(st.inoculated),
                     LceTotalRemoval(LcePredictions(LceCurrentParams(st))[st.selectedModel]))

\* the months of layerTimeData
LceMonths == 1 .. 24

\* removalEstimate of a month: models.B.calculate({...currentParams,
\* sdAge: month * 30})
LceRemovalEstimate(params, month) ==
  LceCalculate("B", [params EXCEPT !.sdAge = Num(month * 30)])

\* layerTimeData: removals in 1e-3, percents in 1e-4 % (the fraction in
\* 1e-6 times 100); deeperFrac * 0.8 is 8 / 10 of the product
layerTimeData(params) ==
  [month \in LceMonths |->
     LET upperFrac == LceUpperFrac(Num(-150000 * month))
         deeperFrac == JSSub(Num(1000000), upperFrac)
         removalEstimate == LceRemovalEstimate(params, month)
     IN  [month |-> month,
          upperLayer |->
            MathMax(Num(0), JSDiv(JSMul(Milli(removalEstimate), Milli(upperFrac)),
                                  Num(1000), 1)),
          deeperLayer |->
            MathMax(Num(0),
                    JSDiv(JSMul(JSMul(Milli(removalEstimate), Milli(deeperFrac)), Num(8)),
                          Num(10000), 1)),
          upperPercent |-> upperFrac,
          deeperPercent |-> deeperFrac,
          current |-> IF params.sdAge.t = "num"
                      THEN Abs((30 * month) - params.sdAge.v) < 30
                      ELSE FALSE]]

\* the coefficients with the sign of the tortuosity coefficient flipped
coefficientsTortuositySign ==
  [beta0 |-> 18330000, beta1 |-> -132900, beta2 |-> -1534, beta3 |-> 101200,
   beta4 |-> -1100]

(***************************************************************************)
(* ExtendedCFTCalculator.  Units: porosity, tortuosity and svr 0.01,       *)
(* hydraulicCond 1e-4; -ln(C/C0) values and contributions 1e-6; log10      *)
(* removal 1e-4; contribution percentages 1 %; percentRemoval 0.01 %;      *)
(* enhancementRatio 0.1.                                                   *)
(***************************************************************************)
\* coefficients, each in 1e-6 per unit of its variable
coefficients ==
  [beta0 |-> 18330000, beta1 |-> -132900, beta2 |-> -1534, beta3 |-> -101200,
   beta4 |-> -1100]

CftPresetKeys == <<"clean", "young", "matured", "fullyMatured">>

\* presets[key].params
CftPresets(key) ==
  CASE key = "clean" ->
         [porosity |-> 35, hydraulicCond |-> 10000, tortuosity |-> 115, svr |-> 0]
    [] key = "young" ->
         [porosity |-> 26, hydraulicCond |-> 6800, tortuosity |-> 125, svr |-> 21]
    [] key = "matured" ->
         [porosity |-> 15, hydraulicCond |-> 4600, tortuosity |-> 146, svr |-> 44]
    [] key = "fullyMatured" ->
         [porosity |-> 5, hydraulicCond |-> 9, tortuosity |-> 124, svr |-> 100]

\* the useState initial values
CftInitial ==
  [porosity |-> 26, hydraulicCond |-> 6800, tortuosity |-> 125, svr |-> 21,
   activePreset |-> NoPreset]

CftSliders ==
  [porosity |-> Sample(2, 45, 1), hydraulicCond |-> Sample(1, 10000, 100),
   tortuosity |-> Sample(100, 200, 1), svr |-> Sample(0, 150, 1)]

\* the four terms without the intercept
CftRegressionNoIntercept(porosity, hydraulicCond, tortuosity, svr) ==
  JSAdd(JSAdd(JSAdd(JSMul(Num(coefficients.beta1), porosity),
                    JSMul(Num(coefficients.beta2), hydraulicCond)),
              JSMul(Num(coefficients.beta3), tortuosity)),
        JSMul(Num(coefficients.beta4), svr))

\* beta0 + beta1 * porosity + beta2 * hydraulicCond + beta3 * tortuosity + beta4 * svr
CftRegression(porosity, hydraulicCond, tortuosity, svr) ==
  JSAdd(JSAdd(JSAdd(JSAdd(Num(coefficients.beta0),
                          JSMul(Num(coefficients.beta1), porosity)),
                    JSMul(Num(coefficients.beta2), hydraulicCond)),
              JSMul(Num(coefficients.beta3), tortuosity)),
        JSMul(Num(coefficients.beta4), svr))

\* lambdaExtended
lambdaExtended(st) ==
  CftRegression(Num(st.porosity), Num(st.hydraulicCond), Num(st.tortuosity), Num(st.svr))

\* the percent of the intercept: (beta0 / total) * 100
InterceptPercent(beta0, total) == JSDiv(beta0, total, 100)

\* the percent of a term: (Math.abs(contrib) / Math.abs(total)) * 100
TermPercent(contrib, total) == JSDiv(MathAbs(contrib), MathAbs(total), 100)

\* contributions
contributions(st) ==
  LET porosityContrib == JSMul(Num(coefficients.beta1), Num(st.porosity))
      hcContrib == JSMul(Num(coefficients.beta2), Num(st.hydraulicCond))
      tortuosityContrib == JSMul(Num(coefficients.beta3), Num(st.tortuosity))
      svrContrib == JSMul(Num(coefficients.beta4), Num(st.svr))
      total == JSAdd(JSAdd(JSAdd(JSAdd(Num(coefficients.beta0), porosityContrib),
                                 hcContrib), tortuosityContrib), svrContrib)
  IN  [intercept |-> [value |-> Num(coefficients.beta0),
                      percent |-> InterceptPercent(Num(coefficients.beta0), total)],
       porosity |-> [value |-> porosityContrib,
                     percent |-> TermPercent(porosityContrib, total)],
       hydraulicCond |-> [value |-> hcContrib, percent |-> TermPercent(hcContrib, total)],
       tortuosity |-> [value |-> tortuosityContrib,
                       percent |-> TermPercent(tortuosityContrib, total)],
       svr |-> [value |-> svrContrib, percent |-> TermPercent(svrContrib, total)],
       total |-> total]

CftTerms == {"intercept", "porosity", "hydraulicCond", "tortuosity", "svr"}

\* cleanBedLambda: the regression at theta 0.35, HC 1.0, tau 1.15, SVR 0
cleanBedLambda == CftRegression(Num(35), Num(10000), Num(115), Num(0))

\* removalMetrics
removalMetrics(lambda, cleanBed) ==
  [log10Removal |-> MathMax(Num(0), JSDiv(lambda, MathLN10, 10)),
   percentRemoval |->
     IF JSGt(lambda, Num(0))
     THEN JSDiv(JSSub(Num(1000000), MathExpNeg(JSNeg(lambda))), Num(100), 1)
     ELSE Num(0),
   cleanBedLog10 |-> MathMax(Num(0), JSDiv(cleanBed, MathLN10, 10)),
   enhancementRatio |->
     IF JSGt(cleanBed, Num(0)) THEN JSDiv(lambda, cleanBed, 10) ELSE Infinity(1)]

\* porositySensitivity: theta from 0.35 down to 0.02 in steps of 0.01
porositySensitivity(st) ==
  [i \in 1..34 |->
     LET theta == 36 - i
         lambda == CftRegression(Num(theta), Num(st.hydraulicCond),
                                 Num(st.tortuosity), Num(st.svr))
     IN  [porosity |-> theta,
          lnRemoval |-> MathMax(Num(0), lambda),
          log10Removal |-> MathMax(Num(0), JSDiv(lambda, MathLN10, 10))]]

\* stageComparison: one entry per preset
stageComparison ==
  [i \in DOMAIN CftPresetKeys |->
     LET p == CftPresets(CftPresetKeys[i])
     IN  [name |-> CftPresetKeys[i],
          lambda |-> CftRegression(Num(p.porosity), Num(p.hydraulicCond),
                                   Num(p.tortuosity), Num(p.svr)),
          porosity |-> p.porosity]]

\* what the Model Output cards show: each value after its toFixed, the
\* -ln(C/C0) and log10 cards in 0.01, the percent card in 0.1 %
CftMetricCards(st) ==
  LET m == removalMetrics(lambdaExtended(st), cleanBedLambda)
  IN  [lnRatio |-> ToFixed(lambdaExtended(st), 10000),
       log10Removal |-> ToFixed(m.log10Removal, 100),
       percentRemoval |-> ToFixed(m.percentRemoval, 10)]

\* what the stage-comparison bar chart and its tooltip show for an entry:
\* the bar and value.toFixed(2) in 0.01, Math.max(0, value) / LN10 in 0.01
CftStageShown(entry) ==
  [bar |-> entry.lambda,
   tooltipLn |-> ToFixed(entry.lambda, 10000),
   tooltipLog10 |-> ToFixed(JSDiv(MathMax(Num(0), entry.lambda), MathLN10, 10), 100)]

(***************************************************************************)
(* TufenkjiElimelech.  Units of the state: dp 0.01 um, dc 0.01 mm,         *)
(* velocity 0.01 m/h, porosity 0.01, rhoP kg/m3, temp degrees C, hamaker   *)
(* 0.1e-20 J, alpha 0.001.  The correlation is a product of non-integer    *)
(* powers; the model keeps of every quantity whether it is NaN and, if     *)
(* not, its sign: Num(1), Num(0) or Num(-1) stand for any positive, zero   *)
(* or negative finite number.                                              *)
(***************************************************************************)
TePresetKeys == {"bacteria", "virus", "coarseSand", "highFlow"}

\* presets[key].params
TePresets(key) ==
  CASE key = "bacteria" ->
         [dp |-> 100, dc |-> 20, velocity |-> 50, porosity |-> 40, rhoP |-> 1050,
          temp |-> 20, hamaker |-> 10, alpha |-> 100]
    [] key = "virus" ->
         [dp |-> 5, dc |-> 20, velocity |-> 50, porosity |-> 40, rhoP |-> 1200,
          temp |-> 20, hamaker |-> 10, alpha |-> 10]
    [] key = "coarseSand" ->
         [dp |-> 100, dc |-> 50, velocity |-> 50, porosity |-> 40, rhoP |-> 1050,
          temp |-> 20, hamaker |-> 10, alpha |-> 100]
    [] key = "highFlow" ->
         [dp |-> 100, dc |-> 20, velocity |-> 180, porosity |-> 40, rhoP |-> 1050,
          temp |-> 20, hamaker |-> 10, alpha |-> 100]

\* the useState initial values
TeInitial ==
  [dp |-> 100, dc |-> 50, velocity |-> 50, porosity |-> 40, rhoP |-> 1050,
   temp |-> 20, hamaker |-> 10, alpha |-> 100, activePreset |-> NoPreset]

TeSliders ==
  [dp |-> Sample(1, 1000, 1), dc |-> Sample(10, 200, 5), velocity |-> Sample(5, 500, 5),
   porosity |-> Sample(25, 55, 1), rhoP |-> Sample(900, 2500, 10),
   temp |-> Sample(5, 35, 1), hamaker |-> Sample(1, 100, 1), alpha |-> Sample(1, 1000, 1)]

\* the sign of a finite number, as a number
SignOf(n) == Num(Sign(n))

\* the sign of Math.pow(base, e) for a non-integer exponent e whose sign is
\* expSign: NaN for a negative base
MathPowSign(base0, expSign) ==
  LET base == ToNumber(base0)
  IN  CASE base.t = "nan" -> NaN
        [] base.t = "num" /\ base.v < 0 -> NaN
        [] base.t = "num" /\ base.v = 0 -> IF expSign > 0 THEN Num(0) ELSE Infinity(1)
        [] base.t = "inf" /\ base.v < 0 -> NaN
        [] base.t = "inf" -> IF expSign > 0 THEN base ELSE Num(0)
        [] OTHER -> Num(1)

\* the sign of a sum of terms none of which is negative
SumSign(terms) ==
  IF \E i \in DOMAIN terms : IsNaN(ToNumber(terms[i])) THEN NaN
  ELSE IF \E i \in DOMAIN terms : terms[i].t = "inf" THEN Infinity(1)
  ELSE IF \E i \in DOMAIN terms : terms[i].v > 0 THEN Num(1)
  ELSE Num(0)

\* rhoParticle - rhoF in 1/180 kg/m3, with
\* rhoF = 1000 * (1 - (T_K - 273.15 - 4)^2 / 180000)
DensityDifference(rhoParticle, temp) ==
  (180 * rhoParticle) - (180000 - ((temp - 4) * (temp - 4)))

\* computeTE(dpM, dcM, U, f, rhoParticle, T_K, A), signs only.  mu, D_inf,
\* As (for 0 < f < 1, where 0 < gamma < 1), NR, NPe, NvdW and NA are
\* products and quotients of positive numbers.
computeTE(dpM, dcM, U, f, rhoParticle, temp, A) ==
  LET mu == Num(1)
      D_inf == JSDiv(Num(1), JSMul(mu, SignOf(dpM)), 1)
      gamma == MathPowSign(SignOf(100 - f), 1)
      As == IF f > 0 /\ f < 100 THEN gamma ELSE NaN
      NR == JSDiv(SignOf(dpM), SignOf(dcM), 1)
      NPe == JSDiv(JSMul(SignOf(U), SignOf(dcM)), D_inf, 1)
      NvdW == SignOf(A)
      NG == JSDiv(JSMul(SignOf(DensityDifference(rhoParticle, temp)),
                        JSMul(SignOf(dpM), SignOf(dpM))),
                  JSMul(mu, SignOf(U)), 1)
      NA == JSDiv(SignOf(A), JSMul(JSMul(mu, JSMul(SignOf(dpM), SignOf(dpM))), SignOf(U)), 1)
      etaD == JSMul(JSMul(MathPowSign(As, 1), MathPowSign(NR, -1)),
                    JSMul(MathPowSign(NPe, -1), MathPowSign(NvdW, 1)))
      etaI == JSMul(JSMul(As, MathPowSign(NR, 1)), MathPowSign(NA, 1))
      etaG == JSMul(JSMul(MathPowSign(NR, -1), MathPowSign(NG, 1)), MathPowSign(NvdW, 1))
  IN  [NR |-> NR, NPe |-> NPe, NvdW |-> NvdW, NG |-> NG, NA |-> NA, As |-> As,
       etaD |-> etaD, etaI |-> etaI, etaG |-> etaG,
       eta0 |-> SumSign(<<etaD, etaI, etaG>>)]

\* The Happel parameter as a number.  gamma = Math.pow(1 - f, 1 / 3) is the
\* fraction a / b, so that 1 - f = a^3 / b^3 and every power the two forms
\* take is a power of a / b.  PolynomialInGamma(a, b, terms) is the sum of
\* coefficient * (a / b)^power over terms, times b^6, kept exactly: pos and
\* neg are the sums of the positive and of the negative terms as naturals
\* in base 10000 (least digit first, no leading zero), and sign is the sign
\* of pos - neg.  The denominator is of the order of (1 - gamma)^3, 4e-10
\* at f = 0.001, which the 32-bit integers do not resolve.
PolynomialInGamma(a, b, terms) ==
  LET RECURSIVE Times(_, _, _), Plus(_, _, _), Less(_, _), Power(_, _, _), Sum(_, _)
      Times(digits, k, carry) ==
        IF digits = <<>>
        THEN IF carry = 0 THEN <<>> ELSE <<carry % 10000>> \o Times(<<>>, k, carry \div 10000)
        ELSE <<((Head(digits) * k) + carry) % 10000>>
               \o Times(Tail(digits), k, ((Head(digits) * k) + carry) \div 10000)
      Plus(x, y, carry) ==
        IF x = <<>> /\ y = <<>> THEN IF carry = 0 THEN <<>> ELSE <<carry>>
        ELSE LET t == (IF x = <<>> THEN 0 ELSE Head(x)) + (IF y = <<>> THEN 0 ELSE Head(y)) + carry
             IN  <<t % 10000>> \o Plus(IF x = <<>> THEN x ELSE Tail(x),
                                       IF y = <<>> THEN y ELSE Tail(y), t \div 10000)
      Less(x, y) ==
        IF Len(x) # Len(y) THEN Len(x) < Len(y)
        ELSE IF x = <<>> THEN FALSE
        ELSE IF x[Len(x)] # y[Len(y)] THEN x[Len(x)] < y[Len(y)]
        ELSE Less(SubSeq(x, 1, Len(x) - 1), SubSeq(y, 1, Len(y) - 1))
      \* x * k^n
      Power(x, k, n) == IF n = 0 \/ x = <<>> THEN x ELSE Power(Times(x, k, 0), k, n - 1)
      \* |coefficient| * a^power * b^(6 - power)
      Term(t) == Power(Power(Times(<<1>>, Abs(t[1]), 0), a, t[2]), b, 6 - t[2])
      Sum(i, positive) ==
        IF i = 0 THEN <<>>
        ELSE IF (terms[i][1] > 0) = positive THEN Plus(Sum(i - 1, positive), Term(terms[i]), 0)
        ELSE Sum(i - 1, positive)
      pos == Sum(Len(terms), TRUE)
      neg == Sum(Len(terms), FALSE)
  IN  [pos |-> pos, neg |-> neg,
       sign |-> IF Less(neg, pos) THEN 1 ELSE IF Less(pos, neg) THEN -1 ELSE 0]

\* the quotient of two such sums as a JavaScript number, its size left out:
\* NaN for 0 / 0, an infinity for a division by zero
QuotientInGamma(numerator, denominator) ==
  [numerator |-> numerator, denominator |-> denominator,
   value |-> IF denominator.sign = 0
             THEN IF numerator.sign = 0 THEN NaN ELSE Infinity(numerator.sign)
             ELSE Num(numerator.sign * denominator.sign)]

\* a denominator whose last term has the power of the term before it
calculateAsFifthPower(a, b) ==
  QuotientInGamma(PolynomialInGamma(a, b, <<(<<2, 0>>), (<<-2, 5>>)>>),
                  PolynomialInGamma(a, b, <<(<<2, 0>>), (<<-3, 1>>), (<<3, 5>>), (<<-2, 5>>)>>))

\* calculateAs(porosity), and the As of computeTE: gamma = a / b,
\* 2 * (1 - gamma^5) / (2 - 3 * gamma + 3 * gamma^5 - 2 * gamma^6)
calculateAs(a, b) ==
  QuotientInGamma(PolynomialInGamma(a, b, <<(<<2, 0>>), (<<-2, 5>>)>>),
                  PolynomialInGamma(a, b, <<(<<2, 0>>), (<<-3, 1>>), (<<3, 5>>), (<<-2, 6>>)>>))

\* the As of classicalCFT, in powers of 1 - porosity = (a / b)^3: the
\* powers 5/3, 1/3 and 2 of it are the powers 5, 1 and 6 of a / b
classicalAs(a, b) ==
  LET third == 3
      PowerOfGamma(numer, denom) == (third * numer) \div denom
  IN  QuotientInGamma(
        PolynomialInGamma(a, b, <<(<<2, 0>>), (<<-2, PowerOfGamma(5, 3)>>)>>),
        PolynomialInGamma(a, b, <<(<<2, 0>>), (<<-3, PowerOfGamma(1, 3)>>),
                                  (<<3, PowerOfGamma(5, 3)>>), (<<-2, PowerOfGamma(2, 1)>>)>>))

\* res.NR = dpM / dcM as a number, in 1e-7 (exact on the slider grid: dp and
\* dc are multiples of 0.01).  dpM = dp * 1e-6 and dcM = dc * 1e-3 are
\* rounded doubles, and for dp = 10 * dc the quotient is 0.01 or, for the
\* grain sizes listed, the double just below it, 0.009999999999999998.
NRValue(dp, dc) ==
  LET roundsBelow == {10, 20, 25, 40, 45, 50, 55, 65, 75, 80, 90, 95, 100}
  IN  Num(((dp * 10000) \div dc) - (IF dp = 10 * dc /\ dc \in roundsBelow THEN 1 ELSE 0))

\* res.NPe = U * dcM / D_inf as a number, rounded down to a whole number:
\* U * dcM * dpM * 3 * pi * mu / (kB * T_K) with U = velocity / 3600,
\* mu = 2.414e-5 * 10^(247.8 / (T_K - 140)) and T_K = temp + 273.15.
\* factor[temp - 4] is 1e-12 / 3600 * 3 * pi * mu / (kB * T_K) for
\* temp = 5 .. 35, the range of the temperature slider.
NPeValue(dp, dc, velocity, temp) ==
  LET factor == <<1023, 990, 958, 927, 898, 870, 844, 818, 793, 770, 748, 726, 705,
                  685, 666, 648, 630, 613, 597, 581, 566, 552, 538, 524, 511, 499,
                  487, 475, 464, 453, 442>>
      product == velocity * dc * dp
  IN  Num(((product \div 1000) * factor[temp - 4])
          + (((product % 1000) * factor[temp - 4]) \div 1000))

\* teResults: computeTE at the current state, the attachment rate and the
\* log removal over L = 0.8 m (signs only, as the efficiencies), and the
\* validity flags of the correlation
teResults(st) ==
  LET res == computeTE(st.dp, st.dc, st.velocity, st.porosity, st.rhoP, st.temp, st.hamaker)
      perGrain == JSDiv(SignOf(100 - st.porosity), SignOf(st.dc), 1)
      katt == JSMul(JSMul(JSMul(perGrain, SignOf(st.velocity)), SignOf(st.alpha)), res.eta0)
      logRemoval == JSMul(JSMul(perGrain, SignOf(st.alpha)), res.eta0)
      nr == NRValue(st.dp, st.dc)
      npe == NPeValue(st.dp, st.dc, st.velocity, st.temp)
      validNR == JSGe(nr, Num(100000)) /\ JSGe(Num(1000000), nr)
      validNPe == JSGe(npe, Num(100)) /\ JSGe(Num(10000000), npe)
  IN  res @@ [katt |-> katt, logRemoval |-> logRemoval, validNR |-> validNR,
              validNPe |-> validNPe, isValid |-> validNR /\ validNPe]

\* a warning that names only the grain-size ratio
TeValidityWarningNROnly(res) ==
  [shown |-> ~res.validNR, NR |-> ~res.validNR, NPe |-> FALSE]

\* the "Outside recommended validity range" box: whether it is rendered, and
\* which of its two lines are
TeValidityWarning(res) ==
  [shown |-> ~res.isValid,
   NR |-> ~res.isValid /\ ~res.validNR,
   NPe |-> ~res.isValid /\ ~res.validNPe]

(***************************************************************************)
(* SSFModelExplorer.  Units of the state: velocity 0.01 m/d, dispersivity  *)
(* 0.001 m, filterDepth 0.01 m, kAtt1 and kAtt2 1/d, kDet1, kDet2, muS1,   *)
(* muS2 and muL 0.01/d.  lambda is in 1e-3/d, the discriminant in 1e-4,    *)
(* its square root in 0.01, the exponent coefficient in 0.01/m, depths in  *)
(* 1e-4 m and exponents and natural logarithms in 1e-6; log10 removal is   *)
(* in 0.01.                                                                *)
(*                                                                         *)
(* The result of Math.exp spans 300 orders of magnitude, so a positive     *)
(* number produced by Math.exp is kept by its logarithm: [t |-> "exp",     *)
(* v |-> e] is the number exp(e * 1e-6).  Math.exp underflows to 0 below   *)
(* -745.13 and overflows to Infinity above 709.78.                         *)
(***************************************************************************)
SsfPresetKeys == {"cleanBed", "matureFilter", "dutchSSF", "highLoading"}

\* presets[key].params
SsfPresets(key) ==
  CASE key = "cleanBed" ->
         [velocity |-> 50, dispersivity |-> 5, filterDepth |-> 100, kAtt1 |-> 20,
          kDet1 |-> 50, muS1 |-> 30, kAtt2 |-> 15, kDet2 |-> 1500, muS2 |-> 30,
          muL |-> 10]
    [] key = "matureFilter" ->
         [velocity |-> 50, dispersivity |-> 5, filterDepth |-> 100, kAtt1 |-> 80,
          kDet1 |-> 5, muS1 |-> 80, kAtt2 |-> 40, kDet2 |-> 800, muS2 |-> 60,
          muL |-> 10]
    [] key = "dutchSSF" ->
         [velocity |-> 30, dispersivity |-> 8, filterDepth |-> 80, kAtt1 |-> 60,
          kDet1 |-> 10, muS1 |-> 50, kAtt2 |-> 35, kDet2 |-> 1200, muS2 |-> 50,
          muL |-> 5]
    [] key = "highLoading" ->
         [velocity |-> 120, dispersivity |-> 3, filterDepth |-> 120, kAtt1 |-> 50,
          kDet1 |-> 10, muS1 |-> 50, kAtt2 |-> 30, kDet2 |-> 1000, muS2 |-> 50,
          muL |-> 10]

\* the useState initial values
SsfInitial ==
  [velocity |-> 50, dispersivity |-> 5, filterDepth |-> 100, kAtt1 |-> 50,
   kDet1 |-> 10, muS1 |-> 50, kAtt2 |-> 30, kDet2 |-> 1000, muS2 |-> 50,
   muL |-> 10, activePreset |-> NoPreset]

SsfSliders ==
  [velocity |-> Sample(10, 200, 5), dispersivity |-> Sample(1, 20, 1),
   filterDepth |-> Sample(30, 150, 5), kAtt1 |-> Sample(5, 150, 1),
   kDet1 |-> Sample(1, 200, 1), muS1 |-> Sample(10, 150, 5),
   kAtt2 |-> Sample(5, 100, 1), kDet2 |-> Sample(100, 5000, 50),
   muS2 |-> Sample(10, 150, 5), muL |-> Sample(0, 50, 1)]

\* (1 + kDet / muS) / kAtt: the quotient taken the other way round
siteContributionInverted(kAtt, kDet, muS) ==
  JSDiv(JSAdd(Num(1000), JSDiv(kDet, muS, 1000)), kAtt, 1000)

\* kAtt / (1 + kDet / muS), in 1e-3/d
siteContribution(kAtt, kDet, muS) ==
  JSDiv(kAtt, JSAdd(Num(1000), JSDiv(kDet, muS, 1000)), 1000000)

\* lambda = muL + site1Contribution + site2Contribution
calculateLambda(kAtt1, kDet1, muS1, kAtt2, kDet2, muS2, muL) ==
  JSAdd(JSAdd(JSMul(Num(10), muL), siteContribution(kAtt1, kDet1, muS1)),
        siteContribution(kAtt2, kDet2, muS2))

\* lambda at the current state
SsfLambda(st) ==
  calculateLambda(Num(st.kAtt1), Num(st.kDet1), Num(st.muS1),
                  Num(st.kAtt2), Num(st.kDet2), Num(st.muS2), Num(st.muL))

RECURSIVE SqrtBetween(_, _, _)
SqrtBetween(n, lo, hi) ==
  IF lo >= hi THEN lo
  ELSE LET mid == (lo + hi + 1) \div 2
       IN  IF mid * mid <= n THEN SqrtBetween(n, mid, hi) ELSE SqrtBetween(n, lo, mid - 1)

\* the largest r with r * r <= n
ISqrt(n) == SqrtBetween(n, 0, 46340)

\* Math.sqrt(x) for x in 1e-4, the result in 0.01: NaN for a negative x
MathSqrt(x0) ==
  LET x == ToNumber(x0)
  IN  CASE x.t = "nan" -> NaN
        [] x.t = "inf" -> IF x.v > 0 THEN x ELSE NaN
        [] x.v < 0 -> NaN
        [] OTHER -> Num(ISqrt(x.v))

\* Math.exp(x) for x in 1e-6
MathExp(x0) ==
  LET x == ToNumber(x0)
  IN  CASE x.t = "nan" -> NaN
        [] x.t = "inf" -> IF x.v > 0 THEN x ELSE Num(0)
        [] x.v < -745130000 -> Num(0)
        [] x.v > 709780000 -> Infinity(1)
        [] OTHER -> [t |-> "exp", v |-> x.v]

\* Math.log(y) in 1e-6, of a number produced by MathExp
MathLog(y) ==
  CASE y.t = "exp" -> Num(y.v)
    [] y.t = "nan" -> NaN
    [] y.t = "inf" -> IF y.v > 0 THEN y ELSE NaN
    [] y.t = "num" /\ y.v = 0 -> Infinity(-1)

\* Math.log10(y) in 0.01, of a number produced by MathExp: ln 10 = 2.3026
MathLog10(y) ==
  LET l == MathLog(y)
  IN  IF l.t = "num" THEN Num(l.v \div 23026) ELSE l

\* y * 100 for a number produced by MathExp: ln 100 = 4.605170
TimesHundred(y) == IF y.t = "exp" THEN [t |-> "exp", v |-> y.v + 4605170] ELSE y

\* discriminant = 1 + (4 * alphaL * lambda) / v
discriminant(v, alphaL, lambda) ==
  JSAdd(Num(10000), JSDiv(JSMul(JSMul(Num(4), alphaL), lambda), v, 1))

\* exponentCoeff = (1 - Math.sqrt(discriminant)) / (2 * alphaL)
exponentCoeff(v, alphaL, lambda) ==
  JSDiv(JSSub(Num(100), MathSqrt(discriminant(v, alphaL, lambda))),
        JSMul(Num(2), alphaL), 1000)

numPoints == 100

\* the sample of profileData at x = (i / numPoints) * filterDepth
profileSample(v, alphaL, lambda, filterDepth, i) ==
  LET x == JSMul(Num(i), filterDepth)
      CoverC0 == MathExp(JSMul(exponentCoeff(v, alphaL, lambda), x))
  IN  [depth |-> x,
       concentration |-> TimesHundred(CoverC0),
       logRemoval |-> JSNeg(MathLog10(CoverC0)),
       lnRatio |-> MathLog(CoverC0)]

\* profileData
profileData(v, alphaL, lambda, filterDepth) ==
  [i \in 0..numPoints |-> profileSample(v, alphaL, lambda, filterDepth, i)]

\* ln(target) / exponentCoeff, in 1e-4 m
depthForTarget(lnTarget, coeff) == JSDiv(Num(lnTarget), coeff, 1)

\* the depth with no test of its sign
PositiveOrAny(depth) == depth

\* depth > 0 ? depth : null
PositiveOrNull(depth) == IF JSGt(depth, Num(0)) THEN depth ELSE Null

\* metrics
metrics(v, alphaL, lambda, filterDepth) ==
  LET coeff == exponentCoeff(v, alphaL, lambda)
      effluentRatio == MathExp(JSMul(coeff, JSMul(Num(100), filterDepth)))
  IN  [totalLogRemoval |-> JSNeg(MathLog10(effluentRatio)),
       effluentPercent |-> TimesHundred(effluentRatio),
       depth2Log |-> PositiveOrNull(depthForTarget(-4605170, coeff)),
       depth4Log |-> PositiveOrNull(depthForTarget(-9210340, coeff))]

\* the text "> range" of the Depth for 2-log card
OutOfRange == [t |-> "> range", v |-> 0]

\* the Depth for 2-log card: metrics.depth2Log && metrics.depth2Log <=
\* filterDepth * 2 ? depth2Log.toFixed(2) : '> range', the depth in 0.01 m
SsfDepthCard(depth2Log, filterDepth) ==
  IF ToBoolean(depth2Log) /\ JSGe(JSMul(Num(200), filterDepth), depth2Log)
  THEN ToFixed(depth2Log, 100)
  ELSE OutOfRange

(***************************************************************************)
(* extendedCFT, the JavaScript implementation of the thesis overview.      *)
(* Efficiencies are in 1e-3.                                               *)
(***************************************************************************)
\* Capacity scaling, with kShrink = 0.45: cap = 1 - etaBase,
\* s = cap / (B1 + B2 + B3 + kShrink * cap) (the divisor in 1e-5),
\* eta_i = B_i * s, etaTotal = etaBase + eta1 + eta2 + eta3
capacityScaling(etaBase, B1, B2, B3) ==
  LET cap == JSSub(Num(1000), etaBase)
      s == JSDiv(cap, JSAdd(JSMul(Num(100), JSAdd(JSAdd(B1, B2), B3)),
                            JSMul(Num(45), cap)), 100000)
      eta1 == JSDiv(JSMul(B1, s), Num(1000), 1)
      eta2 == JSDiv(JSMul(B2, s), Num(1000), 1)
      eta3 == JSDiv(JSMul(B3, s), Num(1000), 1)
  IN  [eta1 |-> eta1, eta2 |-> eta2, eta3 |-> eta3, etaBase |-> etaBase,
       etaTotal |-> JSAdd(JSAdd(JSAdd(etaBase, eta1), eta2), eta3)]

\* calculateDthEff: diameters in um, theta and theta0 in 0.01
calculateDthEff(dth0, dg, dg0, theta, theta0) ==
  LET dthGrain == JSDiv(JSMul(dth0, dth0), JSAdd(dth0, JSSub(dg, dg0)), 1)
      dthTheta == JSDiv(JSMul(dth0, JSDiv(theta, JSSub(Num(100), theta), 1000)),
                        JSDiv(theta0, JSSub(Num(100), theta0), 1000), 1)
  IN  MathMin(dthGrain, dthTheta)

\* B = 1 - Math.exp(-c * Math.pow(T / GMT, e)) for a weight c > 0, a
\* geometric mean GMT > 0 and a non-integer exponent e of sign expSign, by
\* cases of the driver T: NaN for a negative driver; for a zero driver 0
\* when e > 0 and, the power being Infinity, exactly 1 when e < 0; Num(500)
\* stands for the value, strictly between 0 and 1, of a positive driver of
\* moderate size
boundedEfficiency(T, expSign) ==
  LET raw == MathPowSign(T, expSign)
  IN  CASE raw.t = "nan" -> NaN
        [] raw.t = "inf" -> Num(1000)
        [] raw.v = 0 -> Num(0)
        [] OTHER -> Num(500)

\* The stage parameter t = Math.max(0, Math.min(1, (thetaMax - theta) /
\* (thetaMax - thetaMin))), theta in 0.01, as the exact fraction num / den:
\* the quotient where the clamps leave it, 1 / 1 and 0 / 1 where they do
\* not (an infinite quotient included), NaN for 0 / 0
stageParameter(theta, thetaMin, thetaMax) ==
  LET num == thetaMax - theta
      den == thetaMax - thetaMin
      above == IF den > 0 THEN num > den ELSE IF den < 0 THEN num < den ELSE num > 0
      below == IF den > 0 THEN num < 0 ELSE IF den < 0 THEN num > 0 ELSE num < 0
  IN  IF den = 0 /\ num = 0 THEN NaN
      ELSE IF above THEN [num |-> 1, den |-> 1]
      ELSE IF below THEN [num |-> 0, den |-> 1]
      ELSE [num |-> Abs(num), den |-> Abs(den)]

\* a basis whose middle weight is t * (1 - t)
bernsteinBasisSingleCross(t) ==
  IF t = NaN THEN [b1 |-> NaN, b2 |-> NaN, b3 |-> NaN]
  ELSE [b1 |-> (t.den - t.num) * (t.den - t.num), b2 |-> t.num * (t.den - t.num),
        b3 |-> t.num * t.num, den |-> t.den * t.den]

\* the Bernstein basis b1 = (1 - t)^2, b2 = 2 * t * (1 - t), b3 = t^2 of
\* t = num / den, each over den^2
bernsteinBasis(t) ==
  IF t = NaN THEN [b1 |-> NaN, b2 |-> NaN, b3 |-> NaN]
  ELSE [b1 |-> (t.den - t.num) * (t.den - t.num), b2 |-> 2 * t.num * (t.den - t.num),
        b3 |-> t.num * t.num, den |-> t.den * t.den]

\* extendedCFT up to the bounded efficiencies: the drivers T1 (in 0.01),
\* T2 = SVR * dp / RC and T3 = (1 - Math.sqrt(HC / HC0)) * dp / (dp +
\* calculateDthEff(params)), and B1, B2, B3 with the calibrated exponents
\* n = 0.948, m = -0.416, p = 0.235.  SVR, HC and HC0 are in 0.01.
extendedCFT(params) ==
  LET dthEff == calculateDthEff(params.dth0, params.dg, params.dg0,
                                params.theta, params.theta0)
      T1 == JSAdd(params.fShape, params.fConcave)
      T2 == JSDiv(JSMul(params.SVR, params.dp), params.RC, 1)
      T3 == JSMul(JSSub(Num(100), MathSqrt(JSDiv(params.HC, params.HC0, 10000))),
                  JSDiv(params.dp, JSAdd(params.dp, dthEff), 1000))
  IN  [dthEff |-> dthEff, T1 |-> T1, T2 |-> T2, T3 |-> T3,
       B1 |-> boundedEfficiency(T1, 1),
       B2 |-> boundedEfficiency(T2, -1),
       B3 |-> boundedEfficiency(T3, 1)]

(***************************************************************************)
(* The dashboard: SSFToolkit renders the component of activeTool; a        *)
(* component that is not rendered has no state, and mounting it starts it  *)
(* from its useState initial values.  TufenkjiElimelech is a component of  *)
(* its own that the dashboard's menu does not list.                        *)
(***************************************************************************)
DashboardTools ==
  {"ssf-model", "extended-cft", "eps-predictor", "scale-comparison", "layer-explorer"}

EngineIdle == [fn |-> "idle"]

Init ==
  /\ activeTool = "home"
  /\ eps = EpsInitial
  /\ sdp = SdpInitial
  /\ lce = LceInitial
  /\ ssf = SsfInitial
  /\ te = TeInitial
  /\ cft = CftInitial
  /\ edits = 0
  /\ engine = EngineIdle

\* the state every component starts from when it is mounted
Mounted(tool) ==
  /\ activeTool' = tool
  /\ eps' = EpsInitial
  /\ sdp' = SdpInitial
  /\ lce' = LceInitial
  /\ ssf' = SsfInitial
  /\ te' = TeInitial
  /\ cft' = CftInitial
  /\ edits' = 0
  /\ UNCHANGED engine

\* setActiveTool(key), from the menu, the home page or the logo
SelectTool ==
  \E tool \in DashboardTools \cup {"home"} :
    /\ tool # activeTool
    /\ Mounted(tool)

\* <TufenkjiElimelech /> rendered
MountTufenkjiElimelech ==
  /\ activeTool # "tufenkji-elimelech"
  /\ Mounted("tufenkji-elimelech")

\* a Slider whose onChange calls setValue alone
SliderChangeKeepingPreset(st, sliders) ==
  { [st EXCEPT ![f] = val] :
      <<f, val>> \in { fv \in UNION { {f} \X sliders[f] : f \in DOMAIN sliders } :
                         st[fv[1]] # fv[2] } }

\* a slider's onChange: setValue(val); setActivePreset(null)
SliderChange(st, sliders) ==
  { [st EXCEPT ![f] = val, !.activePreset = NoPreset] :
      <<f, val>> \in { fv \in UNION { {f} \X sliders[f] : f \in DOMAIN sliders } :
                         st[fv[1]] # fv[2] } }

\* a render between the setters of applyPreset: the first field of the
\* preset and the key, the other fields as they were
PresetHalfApplied(st, params, key) ==
  [f \in DOMAIN st |->
     IF f = "activePreset" THEN key
     ELSE IF f = "protein" /\ f \in DOMAIN params THEN params[f]
     ELSE st[f]]

\* applyPreset(key): every field of the preset and the key.  The setters
\* are called in one onClick handler, whose state updates React applies
\* together before the next render.
PresetApplied(st, params, key) ==
  [f \in DOMAIN st |->
     IF f = "activePreset" THEN key
     ELSE IF f \in DOMAIN params THEN params[f]
     ELSE st[f]]

EpsSlider ==
  /\ activeTool = "eps-predictor"
  /\ edits < MaxEdits
  /\ eps' \in SliderChange(eps, EpsSliders)
  /\ edits' = edits + 1
  /\ UNCHANGED <<activeTool, sdp, lce, ssf, te, cft, engine>>

\* setInoculated(!inoculated); setActivePreset(null)
EpsToggleInoculated ==
  /\ activeTool = "eps-predictor"
  /\ edits < MaxEdits
  /\ eps' = [eps EXCEPT !.inoculated = ~eps.inoculated, !.activePreset = NoPreset]
  /\ edits' = edits + 1
  /\ UNCHANGED <<activeTool, sdp, lce, ssf, te, cft, engine>>

EpsApplyPreset ==
  /\ activeTool = "eps-predictor"
  /\ \E key \in EpsPresetKeys : eps' = PresetApplied(eps, EpsPresets(key), key)
  /\ edits' = 0
  /\ UNCHANGED <<activeTool, sdp, lce, ssf, te, cft, engine>>

\* a scale select that calls setSelectedScale(value) alone
EpsSelectScaleKeepingModel ==
  /\ activeTool = "eps-predictor"
  /\ \E scale \in Range(EpsScales) :
       /\ scale # eps.selectedScale
       /\ eps' = [eps EXCEPT !.selectedScale = scale]
  /\ UNCHANGED <<activeTool, sdp, lce, ssf, te, cft, edits, engine>>

\* the scale select: setSelectedScale(value); setSelectedModel(first key)
EpsSelectScale ==
  /\ activeTool = "eps-predictor"
  /\ \E scale \in Range(EpsScales) :
       /\ scale # eps.selectedScale
       /\ eps' = [eps EXCEPT !.selectedScale = scale,
                             !.selectedModel = EpsModelKeys(scale)[1]]
  /\ UNCHANGED <<activeTool, sdp, lce, ssf, te, cft, edits, engine>>

\* a model button of availableModels: setSelectedModel(key)
EpsSelectModel ==
  /\ activeTool = "eps-predictor"
  /\ \E model \in Range(EpsModelKeys(eps.selectedScale)) :
       /\ model # eps.selectedModel
       /\ eps' = [eps EXCEPT !.selectedModel = model]
  /\ UNCHANGED <<activeTool, sdp, lce, ssf, te, cft, edits, engine>>

SdpSlider ==
  /\ activeTool = "scale-comparison"
  /\ edits < MaxEdits
  /\ sdp' \in SliderChange(sdp, SdpSliders)
  /\ edits' = edits + 1
  /\ UNCHANGED <<activeTool, eps, lce, ssf, te, cft, engine>>

\* setSandType(key); setActivePreset(null)
SdpSetSandType ==
  /\ activeTool = "scale-comparison"
  /\ edits < MaxEdits
  /\ \E sand \in SdpSandTypes :
       sdp' = [sdp EXCEPT !.sandType = sand, !.activePreset = NoPreset]
  /\ edits' = edits + 1
  /\ UNCHANGED <<activeTool, eps, lce, ssf, te, cft, engine>>

SdpToggleInoculated ==
  /\ activeTool = "scale-comparison"
  /\ edits < MaxEdits
  /\ sdp' = [sdp EXCEPT !.inoculated = ~sdp.inoculated, !.activePreset = NoPreset]
  /\ edits' = edits + 1
  /\ UNCHANGED <<activeTool, eps, lce, ssf, te, cft, engine>>

SdpApplyPreset ==
  /\ activeTool = "scale-comparison"
  /\ \E key \in SdpPresetKeys : sdp' = PresetApplied(sdp, SdpPresets(key), key)
  /\ edits' = 0
  /\ UNCHANGED <<activeTool, eps, lce, ssf, te, cft, engine>>

LceSlider ==
  /\ activeTool = "layer-explorer"
  /\ edits < MaxEdits
  /\ lce' \in SliderChange(lce, LceSliders)
  /\ edits' = edits + 1
  /\ UNCHANGED <<activeTool, eps, sdp, ssf, te, cft, engine>>

LceToggleInoculated ==
  /\ activeTool = "layer-explorer"
  /\ edits < MaxEdits
  /\ lce' = [lce EXCEPT !.inoculated = ~lce.inoculated, !.activePreset = NoPreset]
  /\ edits' = edits + 1
  /\ UNCHANGED <<activeTool, eps, sdp, ssf, te, cft, engine>>

\* a model button: setSelectedModel(key)
LceSelectModel ==
  /\ activeTool = "layer-explorer"
  /\ \E model \in Range(LceModelKeys) :
       /\ model # lce.selectedModel
       /\ lce' = [lce EXCEPT !.selectedModel = model]
  /\ UNCHANGED <<activeTool, eps, sdp, ssf, te, cft, edits, engine>>

LceApplyPreset ==
  /\ activeTool = "layer-explorer"
  /\ \E key \in LcePresetKeys : lce' = PresetApplied(lce, LcePresets(key), key)
  /\ edits' = 0
  /\ UNCHANGED <<activeTool, eps, sdp, ssf, te, cft, engine>>

CftSlider ==
  /\ activeTool = "extended-cft"
  /\ edits < MaxEdits
  /\ cft' \in SliderChange(cft, CftSliders)
  /\ edits' = edits + 1
  /\ UNCHANGED <<activeTool, eps, sdp, lce, ssf, te, engine>>

CftApplyPreset ==
  /\ activeTool = "extended-cft"
  /\ \E key \in Range(CftPresetKeys) : cft' = PresetApplied(cft, CftPresets(key), key)
  /\ edits' = 0
  /\ UNCHANGED <<activeTool, eps, sdp, lce, ssf, te, engine>>

SsfSlider ==
  /\ activeTool = "ssf-model"
  /\ edits < MaxEdits
  /\ ssf' \in SliderChange(ssf, SsfSliders)
  /\ edits' = edits + 1
  /\ UNCHANGED <<activeTool, eps, sdp, lce, te, cft, engine>>

SsfApplyPreset ==
  /\ activeTool = "ssf-model"
  /\ \E key \in SsfPresetKeys : ssf' = PresetApplied(ssf, SsfPresets(key), key)
  /\ edits' = 0
  /\ UNCHANGED <<activeTool, eps, sdp, lce, te, cft, engine>>

TeSlider ==
  /\ activeTool = "tufenkji-elimelech"
  /\ edits < MaxEdits
  /\ te' \in SliderChange(te, TeSliders)
  /\ edits' = edits + 1
  /\ UNCHANGED <<activeTool, eps, sdp, lce, ssf, cft, engine>>

TeApplyPreset ==
  /\ activeTool = "tufenkji-elimelech"
  /\ \E key \in TePresetKeys : te' = PresetApplied(te, TePresets(key), key)
  /\ edits' = 0
  /\ UNCHANGED <<activeTool, eps, sdp, lce, ssf, cft, engine>>

Next ==
  \/ SelectTool
  \/ MountTufenkjiElimelech
  \/ EpsSlider
  \/ EpsToggleInoculated
  \/ EpsApplyPreset
  \/ EpsSelectScale
  \/ EpsSelectModel
  \/ SdpSlider
  \/ SdpSetSandType
  \/ SdpToggleInoculated
  \/ SdpApplyPreset
  \/ LceSlider
  \/ LceToggleInoculated
  \/ LceSelectModel
  \/ LceApplyPreset
  \/ CftSlider
  \/ CftApplyPreset
  \/ SsfSlider
  \/ SsfApplyPreset
  \/ TeSlider
  \/ TeApplyPreset

Spec == Init /\ [][Next]_vars

(***************************************************************************)
(* The evaluation functions called directly.  Each function is a closure   *)
(* over nothing but constants, and the components call it on the records   *)
(* they build; called on its own it accepts any record and any numbers.    *)
(* A field the record does not have reads as undefined.  engine holds the  *)
(* last call: its arguments and how it ended.  JavaScript arithmetic on    *)
(* numbers and undefined never throws, and none of the functions has a     *)
(* throw statement or returns an error value, so every call ends           *)
(* "returned".  JavaScript runs one call at a time: a call starts when no  *)
(* call is outstanding, and EngineDone is the caller dropping the result.  *)
(***************************************************************************)
Returned(value) == [outcome |-> "returned", value |-> value]

\* the values of each field of the parameter records passed in: the ends of
\* the widest slider of the field, and the field missing
EngineFieldValues ==
  [protein |-> {Undefined, Num(10), Num(500)},
   carbohydrate |-> {Undefined, Num(10), Num(500)},
   biomass |-> {Undefined, Num(10), Num(100000)},
   sdAge |-> {Undefined, Num(0), Num(730)},
   grainSize |-> {Undefined, Num(10), Num(80)},
   inoculated |-> {Undefined, Bool(FALSE), Bool(TRUE)}]

EngineParamRecords ==
  [protein : EngineFieldValues.protein, carbohydrate : EngineFieldValues.carbohydrate,
   biomass : EngineFieldValues.biomass, sdAge : EngineFieldValues.sdAge,
   grainSize : EngineFieldValues.grainSize, inoculated : EngineFieldValues.inoculated]

\* the catalog entries of the three components
EngineEntries ==
  { <<"eps", e[1], e[2]>> : e \in EpsEntries } \cup
  { <<"sdp", e[1], e[2]>> : e \in SdpEntries } \cup
  { <<"lce", "pilot", m>> : m \in Range(LceModelKeys) }

\* the fields the entry's calculate reads
EngineReads(entry) ==
  CASE entry[1] = "eps" -> EpsCalculateReads(entry[2], entry[3])
    [] entry[1] = "sdp" -> SdpCalculateReads(entry[2], entry[3])
    [] entry[1] = "lce" -> LceCalculateReads(entry[3])

\* the prediction value of an entry, as the component's predictions holds it
EnginePredictionValue(entry, params) ==
  CASE entry[1] = "eps" -> EpsPredictionValue(entry[2], entry[3], params)
    [] entry[1] = "sdp" -> SdpPredictionValue(entry[2], entry[3], params)
    [] entry[1] = "lce" -> LcePredictionValue(entry[3], params)

\* one entry of predictions computed for a parameter record
EngineEvaluate ==
  /\ engine = EngineIdle
  /\ \E entry \in EngineEntries, params \in EngineParamRecords :
       engine' = [fn |-> "evaluate", entry |-> entry, params |-> params] @@
                   Returned(EnginePredictionValue(entry, params))
  /\ UNCHANGED <<activeTool, eps, sdp, lce, ssf, te, cft, edits>>

\* bestPredictions[scale] computed for a parameter record
EngineBestAvailable ==
  /\ engine = EngineIdle
  /\ \E scale \in Range(SdpScales), params \in EngineParamRecords :
       engine' = [fn |-> "bestAvailable", scale |-> scale, params |-> params] @@
                   Returned(SdpBestPredictions(SdpPredictions(params), scale))
  /\ UNCHANGED <<activeTool, eps, sdp, lce, ssf, te, cft, edits>>

\* layerContributions.upperRemoval computed for a parameter record
EngineLayerTotal ==
  /\ engine = EngineIdle
  /\ \E model \in Range(LceModelKeys), params \in EngineParamRecords :
       engine' = [fn |-> "layerTotal", entry |-> <<"lce", "pilot", model>>,
                    params |-> params] @@
                   Returned(LceTotalRemoval(LcePredictions(params)[model]))
  /\ UNCHANGED <<activeTool, eps, sdp, lce, ssf, te, cft, edits>>

\* the arguments of calculateLambda: rates from zero to the sliders' maxima
EngineRates ==
  [kAtt : {Num(5), Num(150)}, kDet : {Num(0), Num(10), Num(200)},
   muS : {Num(0), Num(10), Num(150)}]

\* lambda computed for two sites and muL
EngineEffectiveRemovalCoefficient ==
  /\ engine = EngineIdle
  /\ \E site1 \in EngineRates, site2 \in EngineRates, muL \in {Num(0), Num(50)} :
       engine' = [fn |-> "effectiveRemovalCoefficient", site1 |-> site1,
                    site2 |-> site2, muL |-> muL] @@
                   Returned(calculateLambda(site1.kAtt, site1.kDet, site1.muS,
                                            site2.kAtt, site2.kDet, site2.muS, muL))
  /\ UNCHANGED <<activeTool, eps, sdp, lce, ssf, te, cft, edits>>

\* the arguments of the profile: lambda from -50/d to 210/d, 0.25/d included
EngineProfileArguments ==
  [v : {Num(10), Num(200)}, alphaL : {Num(1), Num(20)},
   lambda : {Num(-50000), Num(-1000), Num(0), Num(250), Num(43195), Num(210000)},
   filterDepth : {Num(30), Num(150)}]

\* profileData and metrics computed for v, alphaL, lambda and filterDepth
EngineConcentrationProfile ==
  /\ engine = EngineIdle
  /\ \E a \in EngineProfileArguments :
       engine' = [fn |-> "concentrationProfile", args |-> a,
                    discriminant |-> discriminant(a.v, a.alphaL, a.lambda)] @@
                   Returned([profile |-> profileData(a.v, a.alphaL, a.lambda, a.filterDepth),
                             metrics |-> metrics(a.v, a.alphaL, a.lambda, a.filterDepth)])
  /\ UNCHANGED <<activeTool, eps, sdp, lce, ssf, te, cft, edits>>

\* the arguments of the layer split: ages from 0 days to ten years
EngineLayerArguments ==
  [sdAge : {Num(0), Num(1), Num(15), Num(30), Num(365), Num(730), Num(3650)},
   inoculated : {Bool(FALSE), Bool(TRUE)},
   totalRemoval : {Num(0), Num(500000), Num(1709100)}]

\* layerContributions computed for an age, a flag and a total removal
EngineLayerContributions ==
  /\ engine = EngineIdle
  /\ \E a \in EngineLayerArguments :
       engine' = [fn |-> "layerContributions", args |-> a] @@
                   Returned(layerContributions(a.sdAge, a.inoculated, a.totalRemoval))
  /\ UNCHANGED <<activeTool, eps, sdp, lce, ssf, te, cft, edits>>

\* the ratio and its two consumers computed for a protein and a
\* carbohydrate content, a carbohydrate content of 0 included
EngineProteinCarbRatio ==
  /\ engine = EngineIdle
  /\ \E params \in [protein : {Num(0), Num(10), Num(100)},
                    carbohydrate : {Num(0), Num(10), Num(300)},
                    inoculated : {Bool(FALSE), Bool(TRUE)}] :
       engine' = [fn |-> "proteinCarbRatio", params |-> params] @@
                   Returned([proteinCarbRatio |->
                               ProteinCarbRatio(params.protein, params.carbohydrate),
                             modelA |-> EpsCalculate("mini_ch4", "A", params),
                             modelC |-> EpsCalculate("mini_ch4", "C", params)])
  /\ UNCHANGED <<activeTool, eps, sdp, lce, ssf, te, cft, edits>>

\* the capacity scaling computed for a base efficiency from 0 to 1.5 and
\* bounded stage efficiencies from 0 to 1
EngineCapacityScaling ==
  /\ engine = EngineIdle
  /\ \E etaBase \in {Num(0), Num(300), Num(1000), Num(1500)},
        B1 \in {Num(0), Num(500), Num(1000)},
        B2 \in {Num(0), Num(500), Num(1000)},
        B3 \in {Num(0), Num(500), Num(1000)} :
       engine' = [fn |-> "capacityScaling",
                    args |-> [etaBase |-> etaBase, B1 |-> B1, B2 |-> B2, B3 |-> B3]] @@
                   Returned(capacityScaling(etaBase, B1, B2, B3))
  /\ UNCHANGED <<activeTool, eps, sdp, lce, ssf, te, cft, edits>>

\* the drivers and the bounded efficiencies computed for parameters that
\* include SVR = 0, RC = 0, HC0 = 0, HC > HC0 and dg below dg0 by dth0 or
\* more
EngineExtendedCFT ==
  /\ engine = EngineIdle
  /\ \E params \in [fShape : {Num(0), Num(60)}, fConcave : {Num(0), Num(40)},
                    SVR : {Num(0), Num(21)}, dp : {Num(1)}, RC : {Num(0), Num(5)},
                    HC : {Num(46), Num(100)}, HC0 : {Num(0), Num(68)},
                    dth0 : {Num(10)}, dg : {Num(80), Num(90), Num(100)},
                    dg0 : {Num(100)}, theta : {Num(26)}, theta0 : {Num(35)}] :
       engine' = [fn |-> "extendedCFT", params |-> params] @@
                   Returned(extendedCFT(params))
  /\ UNCHANGED <<activeTool, eps, sdp, lce, ssf, te, cft, edits>>

\* pilot Model C evaluated by both components that hold it, for parameter
\* records that include carbohydrate 390 ug/g with protein 185 ug/g and
\* records whose raw value is negative
EnginePilotModelC ==
  /\ engine = EngineIdle
  /\ \E params \in [protein : {Num(10), Num(185), Num(500)},
                    carbohydrate : {Num(10), Num(390), Num(500)},
                    biomass : {Num(1000)}, sdAge : {Num(90)}, grainSize : {Num(30)},
                    inoculated : {Bool(TRUE), Bool(FALSE), Undefined}] :
       engine' = [fn |-> "pilotModelC", params |-> params] @@
                   Returned([eps |-> EpsPredictions(params)[<<"pilot", "C">>].value,
                             lce |-> LcePredictions(params)["C"].value])
  /\ UNCHANGED <<activeTool, eps, sdp, lce, ssf, te, cft, edits>>

\* the stage parameter and the basis computed for porosities from below 0
\* to above thetaMax, with the calibrated thetaMin and thetaMax and with
\* others
EngineStageParameter ==
  /\ engine = EngineIdle
  /\ \E theta \in {-10, 0, 1, 5, 15, 17, 26, 33, 34, 35, 50, 100},
        thetaMin \in {0, 10, 34}, thetaMax \in {34, 40} :
       engine' = [fn |-> "stageParameter", theta |-> theta, thetaMin |-> thetaMin,
                    thetaMax |-> thetaMax] @@
                   Returned([t |-> stageParameter(theta, thetaMin, thetaMax),
                             basis |-> bernsteinBasis(stageParameter(theta, thetaMin, thetaMax))])
  /\ UNCHANGED <<activeTool, eps, sdp, lce, ssf, te, cft, edits>>

\* gamma = a / b for the porosities 1 - (a / b)^3 given to the Happel
\* parameter: from just under 0.001 (2999/3000) to 0.999 (1/10), the
\* slider ranges between, and the two ends 0 (1/1) and 1 (0/1)
EngineGammas ==
  { <<2999, 3000>>, <<299, 300>>, <<59, 60>>, <<19, 20>>, <<9, 10>>, <<843, 1000>>,
    <<766, 1000>>, <<1, 2>>, <<1, 10>>, <<1, 1>>, <<0, 1>> }

\* As computed in both forms for one porosity
EngineHappelParameter ==
  /\ engine = EngineIdle
  /\ \E gamma \in EngineGammas :
       engine' = [fn |-> "calculateAs", gamma |-> gamma,
                    classical |-> classicalAs(gamma[1], gamma[2])] @@
                   Returned(calculateAs(gamma[1], gamma[2]))
  /\ UNCHANGED <<activeTool, eps, sdp, lce, ssf, te, cft, edits>>

EngineDone ==
  /\ engine # EngineIdle
  /\ engine' = EngineIdle
  /\ UNCHANGED <<activeTool, eps, sdp, lce, ssf, te, cft, edits>>

EngineNext ==
  \/ EngineEvaluate
  \/ EngineBestAvailable
  \/ EngineLayerTotal
  \/ EngineEffectiveRemovalCoefficient
  \/ EngineConcentrationProfile
  \/ EngineLayerContributions
  \/ EngineProteinCarbRatio
  \/ EngineCapacityScaling
  \/ EngineExtendedCFT
  \/ EngineHappelParameter
  \/ EngineStageParameter
  \/ EnginePilotModelC
  \/ EngineDone

EngineSpec == Init /\ [][EngineNext]_vars

(***************************************************************************)
(* Two runs on one parameter record.  The predictions and the sweeps are   *)
(* recomputed on every render whose parameters changed; the first run      *)
(* keeps what a render computed for a record, the user goes on (toggles    *)
(* and presets in the EPS predictor, slider changes and presets in the     *)
(* Extended CFT calculator, other tools, each with its own renders), and   *)
(* the second run is a later render on the same record.  The records       *)
(* followed are the initial ones and those of one preset of each tool.     *)
(***************************************************************************)
\* what the EPS predictor computes from currentParams in one render
EpsRender(params) ==
  [predictions |-> EpsPredictions(params), ratioSensitivity |-> ratioSensitivity(params),
   ageSensitivity |-> ageSensitivity(params)]

\* where the user is: the edits since the last preset or mount, and the key
RenderedAt(st) == [edits |-> edits, activePreset |-> st.activePreset]

EpsFirstRun ==
  /\ engine = EngineIdle
  /\ activeTool = "eps-predictor"
  /\ EpsCurrentParams(eps) \in {EpsCurrentParams(EpsInitial),
                                 EpsCurrentParams(PresetApplied(EpsInitial,
                                                                EpsPresets("coarseSand"),
                                                                "coarseSand"))}
  /\ engine' = [fn |-> "EpsRender", params |-> EpsCurrentParams(eps),
                 first |-> EpsRender(EpsCurrentParams(eps)), firstAt |-> RenderedAt(eps)]
  /\ UNCHANGED <<activeTool, eps, sdp, lce, ssf, te, cft, edits>>

EpsSecondRun ==
  /\ engine # EngineIdle
  /\ engine.fn = "EpsRender"
  /\ "second" \notin DOMAIN engine
  /\ activeTool = "eps-predictor"
  /\ EpsCurrentParams(eps) = engine.params
  /\ engine' = engine @@ [second |-> EpsRender(EpsCurrentParams(eps)),
                           secondAt |-> RenderedAt(eps)]
  /\ UNCHANGED <<activeTool, eps, sdp, lce, ssf, te, cft, edits>>

\* the parameters of the Extended CFT calculator as one record
CftCurrentParams(st) ==
  [porosity |-> st.porosity, hydraulicCond |-> st.hydraulicCond,
   tortuosity |-> st.tortuosity, svr |-> st.svr]

\* what the Extended CFT calculator computes from its parameters in one
\* render
CftRender(st) ==
  [lambdaExtended |-> lambdaExtended(st), contributions |-> contributions(st),
   porositySensitivity |-> porositySensitivity(st)]

CftFirstRun ==
  /\ engine = EngineIdle
  /\ activeTool = "extended-cft"
  /\ CftCurrentParams(cft) \in {CftCurrentParams(CftInitial),
                                 CftCurrentParams(CftPresets("matured"))}
  /\ engine' = [fn |-> "CftRender", params |-> CftCurrentParams(cft),
                 first |-> CftRender(cft), firstAt |-> RenderedAt(cft)]
  /\ UNCHANGED <<activeTool, eps, sdp, lce, ssf, te, cft, edits>>

CftSecondRun ==
  /\ engine # EngineIdle
  /\ engine.fn = "CftRender"
  /\ "second" \notin DOMAIN engine
  /\ activeTool = "extended-cft"
  /\ CftCurrentParams(cft) = engine.params
  /\ engine' = engine @@ [second |-> CftRender(cft), secondAt |-> RenderedAt(cft)]
  /\ UNCHANGED <<activeTool, eps, sdp, lce, ssf, te, cft, edits>>

ReplayNext ==
  \/ SelectTool
  \/ EpsToggleInoculated
  \/ EpsApplyPreset
  \/ CftSlider
  \/ CftApplyPreset
  \/ EpsFirstRun
  \/ EpsSecondRun
  \/ CftFirstRun
  \/ CftSecondRun
  \/ EngineDone

ReplaySpec == Init /\ [][ReplayNext]_vars

(***************************************************************************)
(* Properties.                                                             *)
(***************************************************************************)

\* C1: every prediction value that the three predictors hold for the
\* current (finite) parameters is a finite number, is at least 0, and is
\* max(0, raw) of the raw value its entry's calculate returns.
C1_PredictionsFloored ==
  /\ \A e \in EpsEntries :
       LET raw == EpsCalculate(e[1], e[2], EpsCurrentParams(eps))
           val == EpsPredictions(EpsCurrentParams(eps))[e].value
       IN  /\ raw.t = "num" /\ val.t = "num"
           /\ val.v >= 0
           /\ val.v = (IF raw.v > 0 THEN raw.v ELSE 0)
  /\ \A e \in SdpEntries :
       LET raw == SdpCalculate(e[1], e[2], SdpCurrentParams(sdp))
           val == SdpPredictions(SdpCurrentParams(sdp))[e].value
       IN  /\ raw.t = "num" /\ val.t = "num"
           /\ val.v >= 0
           /\ val.v = (IF raw.v > 0 THEN raw.v ELSE 0)
  /\ \A m \in Range(LceModelKeys) :
       LET raw == LceCalculate(m, LceCurrentParams(lce))
           val == LcePredictions(LceCurrentParams(lce))[m].value
       IN  /\ raw.t = "num" /\ val.t = "num"
           /\ val.v >= 0
           /\ val.v = (IF raw.v > 0 THEN raw.v ELSE 0)

\* the EPS predictor shows an entry whose raw value is negative as 0
C1_Witness ==
  /\ activeTool = "eps-predictor"
  /\ edits > 0
  /\ \E e \in EpsEntries :
       /\ EpsCalculate(e[1], e[2], EpsCurrentParams(eps)).v < 0
       /\ EpsPredictions(EpsCurrentParams(eps))[e].value = Num(0)

\* C2: the best available prediction of each scale is the prediction of
\* the scale's documented best model (mini A, midi B, combined B), whatever
\* the parameters.
C2_BestIsDocumentedBest ==
  activeTool = "scale-comparison" =>
    \A scale \in Range(SdpScales) :
      LET preds == SdpPredictions(SdpCurrentParams(sdp))
      IN  SdpBestPredictions(preds, scale) = preds[<<scale, DocBestModel(scale)>>].value

\* C3: an evaluation whose parameter record lacks a variable that the
\* entry reads ends with a missing-field error, never with a value.
C3_MissingFieldIsAnError ==
  /\ engine.fn \in {"evaluate", "layerTotal"}
  /\ \E f \in EngineReads(engine.entry) : engine.params[f] = Undefined
  => engine.outcome = "error"

\* C4: computing the effective removal coefficient with muS1 = 0 or
\* muS2 = 0 ends with a domain error, never with a number, NaN or Infinity.
C4_ZeroInactivationIsAnError ==
  /\ engine.fn = "effectiveRemovalCoefficient"
  /\ engine.site1.muS = Num(0) \/ engine.site2.muS = Num(0)
  => engine.outcome = "error"

\* C5: computing the profile with 1 + 4 alphaL lambda / v < 0 ends with a
\* domain error, never with NaN samples or NaN metrics.
C5_NegativeDiscriminantIsAnError ==
  /\ engine.fn = "concentrationProfile"
  /\ JSLt(engine.discriminant, Num(0))
  => engine.outcome = "error"

\* C6: at every setting of the Tufenkji-Elimelech sliders (rhoP from 900 to
\* 2500 included) etaD, etaI and etaG are finite and non-negative, and so
\* is their sum eta0.
C6_EfficienciesFiniteNonNegative ==
  activeTool = "tufenkji-elimelech" =>
    \A k \in {"etaD", "etaI", "etaG", "eta0"} :
      /\ teResults(te)[k].t = "num"
      /\ teResults(te)[k].v >= 0

\* C7: every catalog entry computes the equation documented for it, and
\* the equation the entry itself carries: the same intercept, coefficients
\* and predictor variables.
C7_CatalogComputesDocumentedEquations ==
  /\ \A e \in EpsEntries :
       /\ EpsCalculate(e[1], e[2], EpsCurrentParams(eps))
            = DocEquation(e[1], e[2], EpsCurrentParams(eps))
       /\ EpsCalculate(e[1], e[2], EpsCurrentParams(eps))
            = EpsEquation(e[1], e[2], EpsCurrentParams(eps))
       /\ EpsCalculateReads(e[1], e[2]) = DocEquationVariables(e[1], e[2])
       /\ EpsCalculateReads(e[1], e[2]) = EpsEquationVariables(e[1], e[2])
  /\ \A e \in SdpEntries :
       /\ SdpCalculate(e[1], e[2], SdpCurrentParams(sdp))
            = DocEquation(SdpDocScale(e[1]), e[2], SdpCurrentParams(sdp))
       /\ SdpCalculate(e[1], e[2], SdpCurrentParams(sdp))
            = SdpEquation(e[1], e[2], SdpCurrentParams(sdp))
       /\ SdpCalculateReads(e[1], e[2]) = DocEquationVariables(SdpDocScale(e[1]), e[2])
       /\ SdpCalculateReads(e[1], e[2]) = SdpEquationVariables(e[1], e[2])

\* C8: when the regression output is negative, every removal value shown
\* from it is 0: the -ln(C/C0), log10 and percent cards, the clean-bed
\* log10, the porosity-sweep samples and the stage-comparison values.
C8_NegativeOutputShownAsZero ==
  activeTool = "extended-cft" =>
    /\ lambdaExtended(cft).v < 0 =>
         /\ CftMetricCards(cft).lnRatio = Num(0)
         /\ CftMetricCards(cft).log10Removal = Num(0)
         /\ CftMetricCards(cft).percentRemoval = Num(0)
    /\ cleanBedLambda.v < 0 =>
         removalMetrics(lambdaExtended(cft), cleanBedLambda).cleanBedLog10 = Num(0)
    /\ \A i \in DOMAIN porositySensitivity(cft) :
         LET sample == porositySensitivity(cft)[i]
             raw == CftRegression(Num(sample.porosity), Num(cft.hydraulicCond),
                                  Num(cft.tortuosity), Num(cft.svr))
         IN  raw.v < 0 => sample.lnRemoval = Num(0) /\ sample.log10Removal = Num(0)
    /\ \A i \in DOMAIN stageComparison :
         stageComparison[i].lambda.v < 0 =>
           /\ CftStageShown(stageComparison[i]).bar = Num(0)
           /\ CftStageShown(stageComparison[i]).tooltipLn = Num(0)
           /\ CftStageShown(stageComparison[i]).tooltipLog10 = Num(0)

\* C9 as stated: with any of the four presets applied the regression total
\* is at least 0.
C9_PresetTotalsNonNegative ==
  activeTool = "extended-cft" /\ cft.activePreset # NoPreset =>
    lambdaExtended(cft).v >= 0

\* C9: with a preset applied the regression total is at least 0 exactly
\* when the preset is fullyMatured; at clean, young and matured it is
\* negative.  The stage comparison holds the same four totals.
C9_PresetTotalsSign ==
  /\ activeTool = "extended-cft" /\ cft.activePreset # NoPreset =>
       (lambdaExtended(cft).v >= 0 <=> cft.activePreset = "fullyMatured")
  /\ \A i \in DOMAIN stageComparison :
       stageComparison[i].lambda.v >= 0 <=> stageComparison[i].name = "fullyMatured"

\* the matured preset applied: the total is negative
C9_Witness ==
  /\ activeTool = "extended-cft"
  /\ cft.activePreset = "matured"
  /\ lambdaExtended(cft).v < 0

\* C10: the percent of each of the five terms is 100 |contribution| /
\* |total|, finite and at least 0.
C10_PercentsAreAbsoluteShares ==
  activeTool = "extended-cft" =>
    \A t \in CftTerms :
      LET c == contributions(cft)
      IN  /\ c[t].percent.t = "num"
          /\ c[t].percent.v >= 0
          /\ c[t].percent = JSDiv(MathAbs(c[t].value), MathAbs(c.total), 100)

\* C11: every sample of the time series is what the layer split returns
\* for the month's age (30 days a month), the current inoculation flag and
\* the month's removal estimate: the same upper fraction with bonus and
\* ceiling, the same upper removal and the same deeper removal.
C11_TimeSeriesIsTheLayerSplit ==
  activeTool = "layer-explorer" =>
    \A month \in LceMonths :
      LET sample == layerTimeData(LceCurrentParams(lce))[month]
          split == layerContributions(Num(30 * month), Bool(lce.inoculated),
                                      LceRemovalEstimate(LceCurrentParams(lce), month))
      IN  /\ sample.upperPercent = split.upperFraction
          /\ sample.deeperPercent = split.deeperFraction
          /\ sample.upperLayer = MathMax(Num(0), split.upperRemoval)
          /\ sample.deeperLayer = MathMax(Num(0), split.deeperRemoval)

C13_DepthOrNotAvailable ==
  engine.fn = "concentrationProfile" =>
    LET a == engine.args
        coeff == exponentCoeff(a.v, a.alphaL, a.lambda)
        m == engine.value.metrics
        raw == depthForTarget(-4605170, coeff)
        card == SsfDepthCard(m.depth2Log, a.filterDepth)
        inRange == raw.t = "num" /\ raw.v > 0 /\ raw.v <= 200 * a.filterDepth.v
    IN  /\ (coeff.t # "num" \/ coeff.v >= 0) =>
             /\ m.depth2Log = Null /\ m.depth4Log = Null
             /\ card = OutOfRange
        /\ (coeff.t = "num" /\ coeff.v < 0) =>
             /\ m.depth2Log = raw /\ raw.t = "num" /\ raw.v > 0
             /\ m.depth4Log = depthForTarget(-9210340, coeff)
        /\ card = OutOfRange <=> ~inRange
        /\ inRange => card = ToFixed(raw, 100) /\ card.v >= 0

\* a profile whose coefficient is negative and whose 2-log depth is beyond
\* twice the filter depth: metrics holds the depth and the card "> range"
C13_Witness ==
  /\ engine.fn = "concentrationProfile"
  /\ engine.value.metrics.depth2Log.t = "num"
  /\ engine.value.metrics.depth2Log.v > 200 * engine.args.filterDepth.v
  /\ SsfDepthCard(engine.value.metrics.depth2Log, engine.args.filterDepth) = OutOfRange

\* C14: for every carbohydrate content from 0 on, 0 included, the
\* displayed ratio is protein / max(carbohydrate, 0.1) and finite, and
\* mini_ch4 Model A and Model C are computed from that same ratio.
C14_RatioUsesFlooredDivisor ==
  engine.fn = "proteinCarbRatio" =>
    LET p == engine.params
        divisor == IF p.carbohydrate.v = 0 THEN 1 ELSE 10 * p.carbohydrate.v
        ratio == (p.protein.v * 100000) \div divisor
        inoc == IF p.inoculated = Bool(TRUE) THEN 1 ELSE 0
    IN  /\ engine.value.proteinCarbRatio = Num(ratio)
        /\ engine.value.modelA = Num(-170000 + (214 * ratio))
        /\ engine.value.modelC = Num(-220000 + (190 * ratio) + (340000 * inoc))

\* the ratio computed for a carbohydrate content of 0: protein / 0.1
C14_Witness ==
  /\ engine.fn = "proteinCarbRatio"
  /\ engine.params.carbohydrate = Num(0)
  /\ engine.params.protein = Num(100)
  /\ engine.value.proteinCarbRatio = Num(10000000)

\* C15: for every base efficiency of at least 0 and bounded stage
\* efficiencies in [0, 1], the scaled stage efficiencies are finite and at
\* least 0 and the total of the base and the three stages is at most 1.
C15_CapacityScalingWithinCapacity ==
  engine.fn = "capacityScaling" =>
    /\ \A k \in {"eta1", "eta2", "eta3"} :
         engine.value[k].t = "num" /\ engine.value[k].v >= 0
    /\ engine.value.etaTotal.t = "num"
    /\ engine.value.etaTotal.v <= 1000

\* C16: the throat diameter and the drivers report a precondition
\* violation, and return nothing, whenever dth0 + (dg - dg0) <= 0, RC = 0,
\* HC0 = 0 or dp + the effective throat diameter <= 0.
C16_BadDenominatorIsReported ==
  /\ engine.fn = "extendedCFT"
  /\ \/ engine.params.dth0.v + (engine.params.dg.v - engine.params.dg0.v) <= 0
     \/ engine.params.RC = Num(0)
     \/ engine.params.HC0 = Num(0)
     \/ ~JSGt(JSAdd(engine.params.dp, engine.value.dthEff), Num(0))
  => engine.outcome = "error"

\* C17: for every driver, zero and negative drivers included, each bounded
\* stage efficiency is a number in [0, 1): never negative, never NaN and
\* never 1.
C17_BoundedEfficienciesBelowOne ==
  engine.fn = "extendedCFT" =>
    \A k \in {"B1", "B2", "B3"} :
      /\ engine.value[k].t = "num"
      /\ engine.value[k].v >= 0
      /\ engine.value[k].v < 1000

\* C18: validNR is true exactly when 0.01 <= NR <= 0.1 and validNPe exactly
\* when 1e2 <= NPe <= 1e7; the flags change nothing else: whatever they
\* are, the efficiencies are those of computeTE and they, katt and the log
\* removal are in the result; the warning is rendered exactly when at least
\* one flag is false, with one line for each false flag.
C18_ValidityFlagsAreAdvisory ==
  LET res == teResults(te)
      te0 == computeTE(te.dp, te.dc, te.velocity, te.porosity, te.rhoP, te.temp, te.hamaker)
      warning == TeValidityWarning(res)
  IN  /\ res.validNR <=> NRValue(te.dp, te.dc).v \in 100000 .. 1000000
      /\ res.validNPe <=> NPeValue(te.dp, te.dc, te.velocity, te.temp).v \in 100 .. 10000000
      /\ res.isValid <=> (res.validNR /\ res.validNPe)
      /\ \A k \in {"etaD", "etaI", "etaG", "eta0"} : res[k] = te0[k]
      /\ \A k \in {"katt", "logRemoval"} :
           res[k] = (IF res.eta0.t = "num" THEN Num(Sign(res.eta0.v)) ELSE res.eta0)
      /\ warning.shown <=> (~res.validNR \/ ~res.validNPe)
      /\ warning.NR <=> ~res.validNR
      /\ warning.NPe <=> ~res.validNPe

\* the Peclet number alone is out of range (above 1e7): the warning is
\* rendered with its N_Pe line only, next to a positive eta0, katt and
\* log removal
C18_Witness ==
  /\ activeTool = "tufenkji-elimelech"
  /\ teResults(te).validNR
  /\ ~teResults(te).validNPe
  /\ TeValidityWarning(teResults(te)) = [shown |-> TRUE, NR |-> FALSE, NPe |-> TRUE]
  /\ teResults(te).eta0 = Num(1)
  /\ teResults(te).katt = Num(1)
  /\ teResults(te).logRemoval = Num(1)

\* C19: every record a sweep gives to a model is the current parameter
\* record with the swept variable replaced (protein for the ratio sweep,
\* sdAge for the age sweeps) and every other field as it is.
C19_SweepsReplaceOnlySweptVariable ==
  LET epsParams == EpsCurrentParams(eps)
      sdpParams == SdpCurrentParams(sdp)
      SameBut(testParams, currentParams, swept) ==
        \A f \in DOMAIN currentParams : f # swept => testParams[f] = currentParams[f]
  IN  /\ activeTool = "eps-predictor" =>
           /\ \A k \in DOMAIN ratioSensitivity(epsParams) :
                SameBut(ratioSensitivity(epsParams)[k].testParams, epsParams, "protein")
           /\ \A i \in DOMAIN ageSensitivity(epsParams) :
                SameBut(ageSensitivity(epsParams)[i].testParams, epsParams, "sdAge")
      /\ activeTool = "scale-comparison" =>
           \A i \in DOMAIN ageRemovalData(sdpParams) :
             /\ SameBut(ageRemovalData(sdpParams)[i].testParams, sdpParams, "sdAge")
             /\ SameBut(ageRemovalData(sdpParams)[i].miniParams, sdpParams, "sdAge")

\* C20: the predictions of every render of the EPS predictor are computed,
\* entry by entry, from the one record currentParams of that render; and
\* while a preset is the active one, that record is the preset's in every
\* field: no render sees the preset's key with only some of its fields.
C20_OneRecordPerPass ==
  activeTool = "eps-predictor" =>
    LET params == EpsCurrentParams(eps)
        preds == EpsPredictions(params)
    IN  /\ \A e \in EpsEntries :
             preds[e].value = MathMax(Num(0), EpsCalculate(e[1], e[2], params))
        /\ eps.activePreset # NoPreset =>
             LET preset == EpsPresets(eps.activePreset)
             IN  /\ \A f \in DOMAIN preset : eps[f] = preset[f]
                 /\ preds = EpsPredictions([protein |-> Num(preset.protein),
                                            carbohydrate |-> Num(preset.carbohydrate),
                                            biomass |-> Num(preset.biomass),
                                            sdAge |-> Num(preset.sdAge),
                                            grainSize |-> Num(preset.grainSize),
                                            inoculated |-> Bool(preset.inoculated)])

\* the coarseSand preset as applyPreset leaves it: six setters, of
\* which at least four change their field, seen together
C20_Witness ==
  /\ activeTool = "eps-predictor"
  /\ eps.activePreset = "coarseSand"
  /\ edits = 0
  /\ \A f \in DOMAIN EpsPresets("coarseSand") : eps[f] = EpsPresets("coarseSand")[f]
  /\ Cardinality({f \in DOMAIN EpsPresets("coarseSand") :
                    EpsInitial[f] # EpsPresets("coarseSand")[f]}) >= 4

\* C21: with muS1, muS2 > 0 and kDet1, kDet2 >= 0, lambda does not fall
\* when kAtt1 alone or kAtt2 alone is raised, the other six arguments as
\* they are.
C21_LambdaMonotoneInAttachment ==
  /\ engine.fn = "effectiveRemovalCoefficient"
  /\ JSGt(engine.site1.muS, Num(0)) /\ JSGt(engine.site2.muS, Num(0))
  /\ JSGe(engine.site1.kDet, Num(0)) /\ JSGe(engine.site2.kDet, Num(0))
  => \A raised \in {Num(5), Num(6), Num(50), Num(149), Num(150), Num(1000)} :
       /\ JSGe(raised, engine.site1.kAtt) =>
            JSGe(calculateLambda(raised, engine.site1.kDet, engine.site1.muS,
                                 engine.site2.kAtt, engine.site2.kDet, engine.site2.muS,
                                 engine.muL),
                 engine.value)
       /\ JSGe(raised, engine.site2.kAtt) =>
            JSGe(calculateLambda(engine.site1.kAtt, engine.site1.kDet, engine.site1.muS,
                                 raised, engine.site2.kDet, engine.site2.muS,
                                 engine.muL),
                 engine.value)

\* lambda for kAtt1 = 5/d with detachment on both sites, which kAtt1 = 6/d
\* raises strictly
C21_Witness ==
  /\ engine.fn = "effectiveRemovalCoefficient"
  /\ engine.site1 = [kAtt |-> Num(5), kDet |-> Num(200), muS |-> Num(10)]
  /\ engine.site2.muS = Num(150) /\ engine.site2.kDet = Num(10)
  /\ engine.value.t = "num"
  /\ JSLt(engine.value,
          calculateLambda(Num(6), engine.site1.kDet, engine.site1.muS,
                          engine.site2.kAtt, engine.site2.kDet, engine.site2.muS,
                          engine.muL))

C23_StageParameterAndBasis ==
  /\ engine.fn = "stageParameter"
  /\ engine.thetaMin = 0 /\ engine.thetaMax = 34
  => LET t == engine.value.t
         basis == engine.value.basis
     IN  /\ t # NaN /\ t.den > 0
         /\ 0 <= t.num /\ t.num <= t.den
         /\ engine.theta >= 34 => t.num = 0
         /\ engine.theta <= 0 => t.num = t.den
         /\ basis.b1 >= 0 /\ basis.b2 >= 0 /\ basis.b3 >= 0
         /\ basis.b1 + basis.b2 + basis.b3 = basis.den

\* theta = 0.26: t = 8/34 and three positive weights 676, 416 and 64 of
\* 1156
C23_Witness ==
  /\ engine.fn = "stageParameter"
  /\ engine.thetaMin = 0 /\ engine.thetaMax = 34 /\ engine.theta = 26
  /\ engine.value.t = [num |-> 8, den |-> 34]
  /\ engine.value.basis = [b1 |-> 676, b2 |-> 416, b3 |-> 64, den |-> 1156]

\* C24: the prediction of pilot Model C is max(0, -2.2556 + 4.78e-3 *
\* carbohydrate + 0.0124 * protein - 0.1935 * inoc), inoc being 1 exactly
\* when inoculated is true, the same in EPSRemovalPredictor and in
\* LayerContributionExplorer; for carbohydrate 390, protein 185 and
\* inoculated true it is 1.7091, 1.709 to three decimals.
C24_PilotModelC ==
  engine.fn = "pilotModelC" =>
    LET raw == (-2255600 + (4780 * engine.params.carbohydrate.v)
                  + (12400 * engine.params.protein.v))
                 - (IF engine.params.inoculated = Bool(TRUE) THEN 193500 ELSE 0)
        expected == Num(IF raw > 0 THEN raw ELSE 0)
    IN  /\ engine.value.eps = expected
        /\ engine.value.lce = expected
        /\ (/\ engine.params.carbohydrate = Num(390)
            /\ engine.params.protein = Num(185)
            /\ engine.params.inoculated = Bool(TRUE))
           => /\ engine.value.eps = Num(1709100)
              /\ ToFixed(engine.value.eps, 1000) = Num(1709)

\* the scenario of the claim, with the floor at 0 inactive
C24_Witness ==
  /\ engine.fn = "pilotModelC"
  /\ engine.params.carbohydrate = Num(390)
  /\ engine.params.protein = Num(185)
  /\ engine.params.inoculated = Bool(TRUE)
  /\ engine.value = [eps |-> Num(1709100), lce |-> Num(1709100)]
  /\ EpsCalculate("pilot", "C", engine.params) = Num(1709100)

\* C25: lambdaExtended is 18.33 - 13.29 theta - 15.34 HC - 10.12 tau -
\* 0.11 SVR at every setting, unclamped; it is the sum of the five signed
\* values of the contribution breakdown; at theta 0.26, HC 0.68, tau 1.25
\* and SVR 0.21 it is -8.23 to two decimals.
C25_RegressionAndBreakdown ==
  activeTool = "extended-cft" =>
    LET lambda == lambdaExtended(cft)
        parts == contributions(cft)
    IN  /\ lambda = Num((((18330000 - (132900 * cft.porosity)) - (1534 * cft.hydraulicCond))
                          - (101200 * cft.tortuosity)) - (1100 * cft.svr))
        /\ lambda = JSAdd(JSAdd(JSAdd(JSAdd(parts.intercept.value, parts.porosity.value),
                                      parts.hydraulicCond.value),
                                parts.tortuosity.value),
                          parts.svr.value)
        /\ (/\ cft.porosity = 26 /\ cft.hydraulicCond = 6800
            /\ cft.tortuosity = 125 /\ cft.svr = 21)
           => ToFixed(lambda, 10000) = Num(-823)

\* the setting of the claim: a negative lambdaExtended, -8.2297, with four
\* negative contributions
C25_Witness ==
  /\ activeTool = "extended-cft"
  /\ cft.porosity = 26 /\ cft.hydraulicCond = 6800
  /\ cft.tortuosity = 125 /\ cft.svr = 21
  /\ lambdaExtended(cft) = Num(-8229700)
  /\ \A k \in CftTerms \ {"intercept"} : contributions(cft)[k].value.v < 0

C27_ActivePresetMatchesParameters ==
  [][LET PresetMatches(st, presets(_), keys) ==
           \/ st.activePreset = NoPreset
           \/ /\ st.activePreset \in keys
              /\ \A f \in DOMAIN presets(st.activePreset) :
                    st[f] = presets(st.activePreset)[f]
         PresetStep(old, new, initial, presets(_), keys) ==
           LET presetFields == UNION { DOMAIN presets(k) : k \in keys }
               changed == { f \in DOMAIN old \ {"activePreset"} : new[f] # old[f] }
           IN  /\ PresetMatches(new, presets, keys)
               /\ \/ new = old
                  \/ new = initial
                  \/ /\ new.activePreset \in keys
                     /\ changed \subseteq presetFields
                  \/ /\ new.activePreset = NoPreset
                     /\ Cardinality(changed) <= 1
                  \/ /\ new.activePreset = old.activePreset
                     /\ changed \cap presetFields = {}
     IN  /\ PresetStep(eps, eps', EpsInitial, EpsPresets, EpsPresetKeys)
         /\ PresetStep(sdp, sdp', SdpInitial, SdpPresets, SdpPresetKeys)
         /\ PresetStep(lce, lce', LceInitial, LcePresets, LcePresetKeys)
         /\ PresetStep(cft, cft', CftInitial, CftPresets, Range(CftPresetKeys))
         /\ PresetStep(ssf, ssf', SsfInitial, SsfPresets, SsfPresetKeys)
         /\ PresetStep(te, te', TeInitial, TePresets, TePresetKeys)
    ]_vars

\* the SSF explorer one slider change after applyPreset("dutchSSF"): the
\* key is cleared and nine of the ten preset values are still in place
C27_Witness ==
  /\ activeTool = "ssf-model"
  /\ edits = 1
  /\ ssf.activePreset = NoPreset
  /\ Cardinality({ f \in DOMAIN SsfPresets("dutchSSF") :
                     ssf[f] # SsfPresets("dutchSSF")[f] }) = 1
  /\ ssf.velocity = SsfPresets("dutchSSF").velocity
  /\ ssf.filterDepth = SsfPresets("dutchSSF").filterDepth

\* C28: in the EPS predictor selectedModel is always a key of the selected
\* scale's models and currentPrediction is the non-null entry of exactly
\* (selectedScale, selectedModel); a change of scale leaves selectedModel
\* at the first model of the new scale.
C28_SelectionNamesCurrentPrediction ==
  [][LET Selected(st) ==
           /\ st.selectedScale \in Range(EpsScales)
           /\ st.selectedModel \in Range(EpsModelKeys(st.selectedScale))
           /\ currentPrediction(st) # Null
           /\ currentPrediction(st).scale = st.selectedScale
           /\ currentPrediction(st).model = st.selectedModel
           /\ currentPrediction(st).value
                = EpsPredictionValue(st.selectedScale, st.selectedModel,
                                     EpsCurrentParams(st))
     IN  /\ Selected(eps)
         /\ Selected(eps')
         /\ eps'.selectedScale # eps.selectedScale
            => eps'.selectedModel = EpsModelKeys(eps'.selectedScale)[1]
    ]_vars

\* the midi scale selected, which has no model C (pilot, the initial scale,
\* has one): the selection is midi's first model and its prediction is shown
C28_Witness ==
  /\ activeTool = "eps-predictor"
  /\ eps.selectedScale = "midi"
  /\ eps.selectedModel = "A"
  /\ "C" \notin Range(EpsModelKeys("midi"))
  /\ currentPrediction(eps).scale = "midi"
  /\ currentPrediction(eps).model = "A"
  /\ currentPrediction(eps).value = EpsPredictionValue("midi", "A", EpsCurrentParams(eps))

\* C29: in the layer split totalRemoval is upperRemoval + deeperRemoval, and
\* whenever totalRemoval > 0 the reported fractions are the layers' shares
\* of it: upperRemoval / totalRemoval = upperFraction and deeperRemoval /
\* totalRemoval = deeperFraction (here to within 0.01 and the two last
\* digits of the removals, which are kept to 1e-3).
C29_LayerFractionsAreShares ==
  activeTool = "layer-explorer" =>
    LET split == LceLayerContributions(lce)
        IsShare(part, fraction) ==
          Abs((part.v * 1000) - (Milli(fraction).v * split.totalRemoval.v))
            <= (10 * split.totalRemoval.v) + 2000
    IN  /\ split.totalRemoval = JSAdd(split.upperRemoval, split.deeperRemoval)
        /\ JSGt(split.totalRemoval, Num(0))
           => /\ IsShare(split.upperRemoval, split.upperFraction)
              /\ IsShare(split.deeperRemoval, split.deeperFraction)

\* C30: the clean-bed baseline, the regression at theta 0.35, HC 1.0,
\* tau 1.15 and SVR 0, is strictly positive, so enhancementRatio is a
\* finite number at every setting and the "vs Clean Bed" card shows a
\* number (not the dash) whenever lambdaExtended > 0.
C30_CleanBedBaselinePositive ==
  activeTool = "extended-cft" =>
    LET ratio == removalMetrics(lambdaExtended(cft), cleanBedLambda).enhancementRatio
        showsNumber == JSGt(ratio, Num(0)) /\ IsFinite(ratio)
    IN  /\ JSGt(cleanBedLambda, Num(0))
        /\ IsFinite(ratio)
        /\ JSGt(lambdaExtended(cft), Num(0)) => showsNumber

====
